---- MODULE Spec2Model ----
(***************************************************************************)
(* PingCrafty scanning engine.                                             *)
(*                                                                         *)
(*   SpecWire  one modern SLP attempt (core/protocol.py: _modern_ping      *)
(*             reading through _read_packet) against one peer, byte by     *)
(*             byte.                                                       *)
(*   Spec      one scan (core/scanner.py: scan_range, the probe tasks it   *)
(*             creates, and the pause()/resume()/stop() calls of the UI).  *)
(*   SpecProbe one probe task, statement by statement.                     *)
(*   SpecStore the tables written by store_server (core/database.py).      *)
(*   SpecRate, SpecScanRate  the token bucket (utils/concurrency.py).      *)
(*   SpecProto one ping_server call, connection by connection.             *)
(*   SpecVarInt  the length loop of _read_packet, byte by byte.            *)
(*   SpecParse one parse_response call (parsers/server_parser.py).         *)
(*   SpecDiscovery  one target generator (modules/discovery.py).           *)
(*   SpecMem   the memory guard in the scan loop (utils/memory.py).        *)
(*   SpecLife  one scanner from add_module and initialize() to the end of  *)
(*             scan_range; SpecInitialize is its part before the loop.     *)
(*   FairSpecRate  the token bucket with no end of time.                   *)
(*   SpecSeen  the timestamps of the SQLite table servers.                 *)
(*   FairSpecHook  the message queue of modules/webhook.py.                *)
(*   SpecCli   CLIInterface.run (ui/cli.py).                               *)
(***************************************************************************)
EXTENDS Integers, Sequences, FiniteSets, TLC

(***************************************************************************)
(* Bounds of the model.                                                    *)
(***************************************************************************)
MaxJsonLen == 33      \* status documents of 2..MaxJsonLen bytes ...
LongJsonLen == 130    \* ... and one whose length needs a two-byte VarInt
NumTargets == 3       \* targets the generator yields, in order 1..NumTargets
NumPorts == 2         \* discovery.ports: consecutive targets share a host

(***************************************************************************)
(* Bytes and characters.                                                   *)
(***************************************************************************)
NonAscii == 256       \* any decoded character outside ASCII

Pow2(k) == 2 ^ k

Max(a, b) == IF a >= b THEN a ELSE b
Min(a, b) == IF a <= b THEN a ELSE b

\* s[from..] as a sequence (empty when from > Len(s))
Drop(s, from) == SubSeq(s, from, Len(s))

(***************************************************************************)
(* core/protocol.py : _encode_varint                                       *)
(***************************************************************************)
RECURSIVE _encode_varint(_)
_encode_varint(value) ==
  LET byte == value % 128          \* value & 0x7F
      rest == value \div 128       \* value >>= 7
  IN  IF rest # 0
        THEN <<byte + 128>> \o _encode_varint(rest)
        ELSE <<byte>>

\* core/protocol.py : _create_packet
_create_packet(packet_id, data) ==
  LET packet_data == _encode_varint(packet_id) \o data
  IN  _encode_varint(Len(packet_data)) \o packet_data

(***************************************************************************)
(* bytes.decode('utf-8', errors='ignore'): well-formed sequences become    *)
(* one character, every byte that cannot start or continue a well-formed   *)
(* sequence is dropped.                                                    *)
(***************************************************************************)
IsCont(b) == b >= 128 /\ b <= 191

\* the range the second byte of a sequence led by b must be in
SecondLo(b) == IF b = 224 THEN 160 ELSE IF b = 240 THEN 144 ELSE 128
SecondHi(b) == IF b = 237 THEN 159 ELSE IF b = 244 THEN 143 ELSE 191

\* number of bytes of the well-formed sequence starting at s[i], 0 if none
Utf8SeqLen(s, i) ==
  LET b == s[i]
      need == IF b < 128 THEN 1
              ELSE IF b >= 194 /\ b <= 223 THEN 2
              ELSE IF b >= 224 /\ b <= 239 THEN 3
              ELSE IF b >= 240 /\ b <= 244 THEN 4
              ELSE 0
  IN  IF need = 0 \/ i + need - 1 > Len(s) THEN 0
      ELSE IF need = 1 THEN 1
      ELSE IF s[i+1] < SecondLo(b) \/ s[i+1] > SecondHi(b) THEN 0
      ELSE IF \A k \in 2..(need-1) : IsCont(s[i+k]) THEN need
      ELSE 0

\* A well-formed sequence consumes continuation bytes only, and a
\* continuation byte starts no sequence, so the decoder's left-to-right pass
\* yields exactly one character per position that starts a well-formed
\* sequence, in order, and nothing for every other byte.
utf8_decode_ignore(s) ==
  LET starts == SelectSeq([i \in 1..Len(s) |-> i],
                          LAMBDA i : Utf8SeqLen(s, i) > 0)
  IN  [k \in 1..Len(starts) |->
         IF s[starts[k]] < 128 THEN s[starts[k]] ELSE NonAscii]

(***************************************************************************)
(* json.loads on the documents of the model: an object that is empty or    *)
(* has the one member "v" with a one-digit value, with insignificant       *)
(* whitespace.  _modern_ping stores a key into the value, which raises     *)
(* for every JSON value that is not an object, so `anything else fails'    *)
(* is what the caller observes.                                            *)
(***************************************************************************)
ChTab == 9
ChLf == 10
ChCr == 13
ChSpace == 32
ChQuote == 34
ChZero == 48
ChColon == 58
ChV == 118
ChLBrace == 123
ChRBrace == 125

JsonWs == {ChTab, ChLf, ChCr, ChSpace}

\* first index >= i of s that holds no whitespace (Len(s)+1 if none)
SkipWs(s, i) ==
  LET stops == {j \in i..Len(s) : s[j] \notin JsonWs}
  IN  IF stops = {} THEN Max(i, Len(s) + 1)
      ELSE CHOOSE j \in stops : \A k \in stops : j <= k

At(s, i) == IF i >= 1 /\ i <= Len(s) THEN s[i] ELSE -1

JsonFail == [ok |-> FALSE, v |-> -1]

\* v = -1: the empty object; v = d: the object {"v": d}
json_loads(s) ==
  LET i0 == SkipWs(s, 1)
      i1 == SkipWs(s, i0 + 1)          \* after '{'
  IN  IF At(s, i0) # ChLBrace THEN JsonFail
      ELSE IF At(s, i1) = ChRBrace
        THEN IF SkipWs(s, i1 + 1) = Len(s) + 1
               THEN [ok |-> TRUE, v |-> -1] ELSE JsonFail
      ELSE IF At(s, i1) = ChQuote /\ At(s, i1 + 1) = ChV
              /\ At(s, i1 + 2) = ChQuote
        THEN LET i2 == SkipWs(s, i1 + 3)       \* ':'
                 i3 == SkipWs(s, i2 + 1)       \* the digit
                 i4 == SkipWs(s, i3 + 1)       \* '}'
             IN  IF At(s, i2) = ChColon
                    /\ At(s, i3) >= ChZero /\ At(s, i3) <= ChZero + 9
                    /\ At(s, i4) = ChRBrace
                    /\ SkipWs(s, i4 + 1) = Len(s) + 1
                   THEN [ok |-> TRUE, v |-> At(s, i3) - ChZero]
                   ELSE JsonFail
      ELSE JsonFail

(***************************************************************************)
(* The peer of one attempt.  A well-formed status response is the packet   *)
(*   VarInt(packet length) VarInt(0x00) VarInt(JSON length) JSON bytes.    *)
(***************************************************************************)
Spaces(n) == [i \in 1..n |-> ChSpace]

\* a JSON object of exactly L bytes: {} or {"v":d}, padded before the '}'
JsonBytes(L, v) ==
  IF v = -1
    THEN <<ChLBrace>> \o Spaces(L - 2) \o <<ChRBrace>>
    ELSE <<ChLBrace, ChQuote, ChV, ChQuote, ChColon, ChZero + v>>
           \o Spaces(L - 7) \o <<ChRBrace>>

STATUS_RESPONSE_PACKET == 0

StatusReply(L, v) ==
  _create_packet(STATUS_RESPONSE_PACKET, _encode_varint(L) \o JsonBytes(L, v))

DocValues == {-1, 0, 9}
JsonLens == (2..MaxJsonLen) \cup {LongJsonLen}
Docs == {d \in [len : JsonLens, v : DocValues] : d.v # -1 => d.len >= 7}
NoDoc == [len |-> 0, v |-> -1]

PeerKinds == {"refuse", "blackhole", "silent", "close", "reset", "reply"}

(***************************************************************************)
(* core/protocol.py : ProtocolConfig / MinecraftProtocol                   *)
(***************************************************************************)
protocol_version == 770
VarIntMaxShift == 35

\* mutant of VarIntStep: the shift grows by a whole byte
VarIntStepByByte(len, sh, value) ==
  [length   |-> IF value % 128 = 0 THEN len
                ELSE len + (value % 128) * Pow2(sh),
   more     |-> value >= 128,
   shift    |-> IF value >= 128 THEN sh + 8 ELSE sh,
   overflow |-> value >= 128 /\ sh + 8 > VarIntMaxShift]

\* one pass of the length loop of _read_packet (lines 232-240) on byte value
VarIntStep(len, sh, value) ==
  [length   |-> IF value % 128 = 0 THEN len        \* |= (value & 0x7F) << shift
                ELSE len + (value % 128) * Pow2(sh),
   more     |-> value >= 128,                      \* value & 0x80
   shift    |-> IF value >= 128 THEN sh + 7 ELSE sh,
   overflow |-> value >= 128 /\ sh + 7 > VarIntMaxShift]

None == [ok |-> FALSE, v |-> -1, ping_protocol_used |-> -1]
Pending == [ok |-> FALSE, v |-> -1, ping_protocol_used |-> -2]

\* _read_packet: the bytes after the packet id VarInt (data[pos:])
RECURSIVE SkipPacketId(_, _)
SkipPacketId(data, pos) ==
  IF pos < Len(data)
    THEN IF data[pos + 1] < 128 THEN pos + 1
         ELSE SkipPacketId(data, pos + 1)
    ELSE pos

AfterPacketId(data) == Drop(data, SkipPacketId(data, 0) + 1)

\* _modern_ping, lines 174-182: what it returns for what _read_packet gave
ParseResponse(response_data, version) ==
  IF response_data = <<>> THEN None
  ELSE LET r == json_loads(utf8_decode_ignore(response_data))
       IN  IF r.ok
             THEN [ok |-> TRUE, v |-> r.v, ping_protocol_used |-> version]
             ELSE None        \* json.loads raised, caught at line 188

\* _read_packet, lines 243-255, then _modern_ping on its result
ResponseFromData(data, version) ==
  IF data = <<>> THEN None ELSE ParseResponse(AfterPacketId(data), version)

(***************************************************************************)
(* Configuration of the scan (core/config_types.py).                       *)
(***************************************************************************)
max_concurrent == 2              \* concurrency.max_concurrent
max_connections_per_host == 1    \* concurrency.max_connections_per_host
batch_size == 2                  \* concurrency.batch_size
retries == 1                     \* scanner.retries

Targets == 1..NumTargets
\* RangeGenerator: for each host, one target per configured port
HostOf(t) == ((t - 1) \div NumPorts) + 1
Hosts == {HostOf(t) : t \in Targets}

(***************************************************************************)
(* State of one scan (Spec).                                               *)
(***************************************************************************)
VARIABLES
  cpc,          \* scan_range's position
  running,      \* MinecraftScanner.running
  paused,       \* MinecraftScanner.paused
  initialized,  \* MinecraftScanner._initialized
  start_time,   \* stats.start_time (0 until scan_range sets it)
  nextIdx,      \* targets the generator has yielded
  cur,          \* the loop variable target
  tasks,        \* the list tasks of scan_range
  semaphore,    \* the value of the asyncio.Semaphore of scan_range
  pc,           \* position of the probe task of each target
  attempt,      \* _scan_target: attempt
  outcome,      \* how the last attempt of the target ended, once it is the last
  stats,        \* ScanStats counters
  blacklist,    \* BlacklistManager: blacklist_cache and network_blacklist
  stopped_mid,  \* history: stop() was called between running = True and return
  launched_after_stop,   \* history: probes created since that stop()
  launched_in_pause      \* history: probes created since the latest pause()

scanVars == <<cpc, running, paused, initialized, start_time, nextIdx, cur,
              tasks, semaphore, pc, attempt, outcome, stats,
              blacklist, stopped_mid, launched_after_stop, launched_in_pause>>

(***************************************************************************)
(* State of one attempt (SpecWire).                                        *)
(***************************************************************************)
VARIABLES
  peerKind,    \* how the peer behaves
  doc,         \* the status document a "reply" peer carries
  wire,        \* the bytes a "reply" peer writes
  delivered,   \* how many of them have reached the reader's buffer
  segs,        \* in how many segments
  peerEof,     \* the peer has closed its side
  mpc,         \* _modern_ping's position
  consumed,    \* bytes the reader has taken from the buffer
  length,      \* _read_packet: length
  shift,       \* _read_packet: shift
  mresult      \* what _modern_ping returns

wireVars == <<peerKind, doc, wire, delivered, segs, peerEof,
              mpc, consumed, length, shift, mresult>>

(***************************************************************************)
(* State of one probe followed statement by statement (SpecProbe).         *)
(***************************************************************************)
VARIABLES
  p_target,    \* the target of the probe
  p_valid,     \* its ip string is an IP address
  p_pc,        \* _scan_target's position
  p_attempt,   \* _scan_target: attempt
  p_inner,     \* _ping_single_protocol: attempt
  p_obs,       \* the observer to invoke next
  p_stats,     \* ScanStats counters
  p_conns,     \* history: connections opened for the target
  p_inflight,  \* history: connections of the probe now open or opening
  p_nobackoff, \* history: a connection followed a failed one with no wait
  p_raises,    \* history: exceptions raised inside the probe
  p_stores,    \* history: store_server calls
  p_rows,      \* history: store_server calls that committed
  p_notified,  \* history: observers invoked
  p_late       \* history: the blacklist changed after the probe had started

oneVars == <<p_target, p_valid, p_pc, p_attempt, p_inner, p_obs, p_stats,
             p_conns, p_inflight, p_nobackoff, p_raises, p_stores, p_rows,
             p_notified, p_late>>

(***************************************************************************)
(* State of the store (SpecStore).                                         *)
(***************************************************************************)
VARIABLES
  backend,        \* DatabaseConfig.type
  servers,        \* table servers: the row of each endpoint
  server_status,  \* table server_status: the rows, in insertion order
  db_time,        \* CURRENT_TIMESTAMP, in seconds
  probes          \* history: the probes completed for each endpoint

dbVars == <<backend, servers, server_status, db_time, probes>>

(***************************************************************************)
(* State of the rate limiter (SpecRate).                                   *)
(***************************************************************************)
VARIABLES
  tokens,       \* RateLimiter.tokens
  last_update,  \* RateLimiter.last_update
  clock,        \* time.time()
  acq,          \* the acquire call of each caller
  warm,         \* history: the first bucket has been used up
  win_start,    \* history: when the observed window began (-1: not yet)
  win_count     \* history: probes launched inside the window

rateVars == <<tokens, last_update, clock, acq, warm, win_start, win_count>>

(***************************************************************************)
(* State of one ping_server call (SpecProto).                              *)
(***************************************************************************)
VARIABLES
  config,      \* MinecraftProtocol.config : ProtocolConfig
  pp_pc,       \* where the call is: "call", "first", "fallback", "single",
               \* "legacy", "returned"
  pp_idx,      \* position of the for loop in config.protocol_versions
  pp_attempt,  \* attempt of _ping_single_protocol
  pp_result,   \* what ping_server returned
  pp_conns     \* history: the connections opened, in order

protoVars == <<config, pp_pc, pp_idx, pp_attempt, pp_result, pp_conns>>

(***************************************************************************)
(* State of the length loop of _read_packet (SpecVarInt).                  *)
(***************************************************************************)
VARIABLES
  vi_n,       \* the integer that was encoded (-1: the bytes are the peer's)
  vi_stream,  \* the bytes reader.read(1) will return, in order
  vi_pos,     \* bytes consumed
  vi_length,  \* length
  vi_shift,   \* shift
  vi_pc       \* "reading", "length" (break), "ProtocolError", "eof"

varintVars == <<vi_n, vi_stream, vi_pos, vi_length, vi_shift, vi_pc>>

(***************************************************************************)
(* State of one parse_response call (SpecParse).                           *)
(***************************************************************************)
VARIABLES
  ps_document,    \* the status document, as json.loads returned it
  parsed,         \* what parse_response returned, or ParsingError
  ps_pc           \* "called", "returned", "ParsingError"

parseVars == <<ps_document, parsed, ps_pc>>

(***************************************************************************)
(* State of one target generator (SpecDiscovery).                          *)
(***************************************************************************)
VARIABLES
  d_config,  \* DiscoveryConfig: ports, batch_size
  d_input,   \* the network, or the lines of the file
  d_pos,     \* hosts, or lines, done with
  d_port,    \* ports of the current host done with
  d_batch,   \* RangeGenerator: batch
  d_out,     \* history: the targets yielded, in order
  d_pc       \* "loop", "flush", "tail", "done", "DiscoveryError"

discVars == <<d_config, d_input, d_pos, d_port, d_batch, d_out, d_pc>>

\* ---- further state ----
(***************************************************************************)
(* State of the memory guard (SpecMem).                                    *)
(***************************************************************************)
VARIABLES
  mm_config,             \* MemoryConfig: gc_interval, enable_monitoring
  monitoring_available,  \* MemoryManager.monitoring_available
  scan_count,            \* MemoryManager.scan_count
  gc_count,              \* MemoryManager.gc_count
  mm_pc,                 \* the coordinator: "check", "acquire",
                         \* "ScannerError"
  mm_returned,           \* what check_usage returned last
  mm_cleanup,            \* history: the cleanup the last check ran
  mm_usage,              \* history: the usage the last check sampled, in
                         \* percent (-1: none)
  mm_unheeded            \* history: a probe was launched straight after a
                         \* False

memVars ==
  <<mm_config, monitoring_available, scan_count, gc_count, mm_pc,
    mm_returned, mm_cleanup, mm_usage, mm_unheeded>>

(***************************************************************************)
(* State of one scanner, construction to end of scan_range (SpecLife).     *)
(***************************************************************************)
VARIABLES
  lf_webhook,      \* webhook.enabled
  lf_modules,      \* len(self.modules): the modules are 1..lf_modules
  lf_comp_inits,   \* initialize() calls each component has received
  lf_mod_inits,    \* initialize(scanner) calls each module has received
  lf_initialized,  \* self._initialized
  lf_init_by,      \* who is inside initialize(): "none", "caller",
                   \* "scan_range"
  lf_init_pos,     \* the step initialize() is at (0: not inside)
  lf_calls,        \* history: initialize() calls made
  lf_failed,       \* history: an initialize() call raised
  lf_at_init,      \* history: len(self.modules) when initialize() returned
                   \* (-1: it has not)
  lf_pc,           \* "setup", "created", "init", "loop", "launch", "gather",
                   \* "finalize", "done", "ScannerError"
  lf_running,      \* self.running
  lf_early_stop,   \* history: stop() came after the task was created, before
                   \* line 169
  lf_taken,        \* targets the loop has taken from the generator
  lf_probe,        \* each target's probe task: "none", "waiting", "running",
                   \* "done"
  lf_tasks,        \* the local list tasks of scan_range
  lf_finals,       \* finalize() calls each module has received
  lf_fin_pos,      \* the module _finalize_scan is at
  lf_fin_raised,   \* history: a module's finalize() raised
  lf_complete,     \* send_scan_complete calls
  lf_exit          \* history: how the scan loop was left: "none",
                   \* "exhausted", "stopped", "error"

lifeVars ==
  <<lf_webhook, lf_modules, lf_comp_inits, lf_mod_inits, lf_initialized,
    lf_init_by, lf_init_pos, lf_calls, lf_failed, lf_at_init, lf_pc,
    lf_running, lf_early_stop, lf_taken, lf_probe, lf_tasks, lf_finals,
    lf_fin_pos, lf_fin_raised, lf_complete, lf_exit>>

(***************************************************************************)
(* State of the SQLite servers table with its timestamps (SpecSeen).       *)
(***************************************************************************)
VARIABLES
  sn_servers,  \* the rows of the table servers, by endpoint
  sn_time,     \* CURRENT_TIMESTAMP, in seconds
  sn_stores,   \* history: store_server calls for each endpoint
  sn_created   \* history: when each endpoint's row was first created (-1:
               \* never)

seenVars ==
  <<sn_servers, sn_time, sn_stores, sn_created>>

(***************************************************************************)
(* State of the webhook manager (FairSpecHook).                            *)
(***************************************************************************)
VARIABLES
  wh_batch_size,  \* WebhookManager.batch_size
  wh_session,     \* self.session is not None: initialize() has run and
                  \* succeeded
  message_queue,  \* len(self.message_queue)
  wh_call,        \* each task inside the manager: pc, the batch left,
                  \* messages sent
  wh_calls        \* history: _queue_message calls made

hookVars ==
  <<wh_batch_size, wh_session, message_queue, wh_call, wh_calls>>

(***************************************************************************)
(* State of the headless front end (SpecCli).                              *)
(***************************************************************************)
VARIABLES
  cli_range,       \* the ip_range given to CLIInterface.run
  cli_pc,          \* "banner", "estimate", "create_task", "except",
                   \* "finally", "closed"
  cli_running,     \* CLIInterface.running
  cli_stop_asked,  \* history: the signal handler has called scanner.stop()
  scan_started,    \* history: scanner.scan_range(ip_range) has been started
  stats_printed,   \* history: _print_final_stats has run
  db_closed        \* history: scanner.db.close() has been awaited

cliVars ==
  <<cli_range, cli_pc, cli_running, cli_stop_asked, scan_started,
    stats_printed, db_closed>>

midVars == <<protoVars, varintVars, parseVars, discVars>>

lastVars == <<memVars, lifeVars, seenVars, hookVars, cliVars>>

offMemVars ==
  <<wireVars, scanVars, oneVars, dbVars, rateVars, midVars, lifeVars,
    seenVars, hookVars, cliVars>>

offLifeVars ==
  <<wireVars, scanVars, oneVars, dbVars, rateVars, midVars, memVars,
    seenVars, hookVars, cliVars>>

offSeenVars ==
  <<wireVars, scanVars, oneVars, dbVars, rateVars, midVars, memVars,
    lifeVars, hookVars, cliVars>>

offHookVars ==
  <<wireVars, scanVars, oneVars, dbVars, rateVars, midVars, memVars,
    lifeVars, seenVars, cliVars>>

offCliVars ==
  <<wireVars, scanVars, oneVars, dbVars, rateVars, midVars, memVars,
    lifeVars, seenVars, hookVars>>

\* ---- end of further state ----

moreVars == <<protoVars, varintVars, parseVars, discVars, lastVars>>

restVars == <<oneVars, dbVars, rateVars, moreVars>>

vars == <<wireVars, scanVars, restVars>>

\* ScanStats() (scanner.py, line 130)
ScanStats ==
  [total_scanned |-> 0, servers_found |-> 0,
   blacklisted_skipped |-> 0, errors |-> 0]

\* no probe is followed
OneUnused ==
  /\ p_target = 1
  /\ p_valid = TRUE
  /\ p_pc = "done"
  /\ p_attempt = 0
  /\ p_inner = 0
  /\ p_obs = 1
  /\ p_stats = ScanStats
  /\ p_conns = 0
  /\ p_inflight = 0
  /\ p_nobackoff = FALSE
  /\ p_raises = 0
  /\ p_stores = 0
  /\ p_rows = 0
  /\ p_notified = {}
  /\ p_late = FALSE

\* no store is watched
DbUnused ==
  /\ backend = "sqlite"
  /\ servers = <<>>
  /\ server_status = <<>>
  /\ db_time = 0
  /\ probes = <<>>

\* no rate limiter is watched
RateUnused ==
  /\ tokens = 0
  /\ last_update = 0
  /\ clock = 0
  /\ acq = <<>>
  /\ warm = FALSE
  /\ win_start = -1
  /\ win_count = 0

\* no ping_server call is followed
ProtoUnused ==
  /\ config = <<>>
  /\ pp_pc = "returned"
  /\ pp_idx = 0
  /\ pp_attempt = 0
  /\ pp_result = <<>>
  /\ pp_conns = <<>>

\* no length prefix is being read
VarIntUnused ==
  /\ vi_n = -1
  /\ vi_stream = <<>>
  /\ vi_pos = 0
  /\ vi_length = 0
  /\ vi_shift = 0
  /\ vi_pc = "eof"

\* no status document is being parsed
ParseUnused ==
  /\ ps_document = <<>>
  /\ parsed = <<>>
  /\ ps_pc = "returned"

\* no generator is running
DiscUnused ==
  /\ d_config = <<>>
  /\ d_input = <<>>
  /\ d_pos = 0
  /\ d_port = 0
  /\ d_batch = <<>>
  /\ d_out = <<>>
  /\ d_pc = "done"

\* ---- further state, unused ----
\* no memory guard is watched
MemUnused ==
  /\ mm_config = <<>>
  /\ monitoring_available = FALSE
  /\ scan_count = 0
  /\ gc_count = 0
  /\ mm_pc = "check"
  /\ mm_returned = TRUE
  /\ mm_cleanup = "none"
  /\ mm_usage = -1
  /\ mm_unheeded = FALSE

\* no scanner life is followed
LifeUnused ==
  /\ lf_webhook = FALSE
  /\ lf_modules = 0
  /\ lf_comp_inits = <<>>
  /\ lf_mod_inits = <<>>
  /\ lf_initialized = FALSE
  /\ lf_init_by = "none"
  /\ lf_init_pos = 0
  /\ lf_calls = 0
  /\ lf_failed = FALSE
  /\ lf_at_init = -1
  /\ lf_pc = "setup"
  /\ lf_running = FALSE
  /\ lf_early_stop = FALSE
  /\ lf_taken = 0
  /\ lf_probe = <<>>
  /\ lf_tasks = {}
  /\ lf_finals = <<>>
  /\ lf_fin_pos = 0
  /\ lf_fin_raised = FALSE
  /\ lf_complete = 0
  /\ lf_exit = "none"

\* no timestamps are watched
SeenUnused ==
  /\ sn_servers = <<>>
  /\ sn_time = 0
  /\ sn_stores = <<>>
  /\ sn_created = <<>>

\* no webhook is watched
HookUnused ==
  /\ wh_batch_size = 0
  /\ wh_session = FALSE
  /\ message_queue = 0
  /\ wh_call = <<>>
  /\ wh_calls = 0

\* no front end runs
CliUnused ==
  /\ cli_range = <<>>
  /\ cli_pc = "banner"
  /\ cli_running = TRUE
  /\ cli_stop_asked = FALSE
  /\ scan_started = FALSE
  /\ stats_printed = FALSE
  /\ db_closed = FALSE

LastUnused == MemUnused /\ LifeUnused /\ SeenUnused /\ HookUnused /\ CliUnused

MemOthersUnused == LifeUnused /\ SeenUnused /\ HookUnused /\ CliUnused

LifeOthersUnused == MemUnused /\ SeenUnused /\ HookUnused /\ CliUnused

SeenOthersUnused == MemUnused /\ LifeUnused /\ HookUnused /\ CliUnused

HookOthersUnused == MemUnused /\ LifeUnused /\ SeenUnused /\ CliUnused

CliOthersUnused == MemUnused /\ LifeUnused /\ SeenUnused /\ HookUnused

\* ---- end of further state, unused ----

MoreUnused ==
  ProtoUnused /\ VarIntUnused /\ ParseUnused /\ DiscUnused /\ LastUnused

\* nothing but the state declared last is in use
RestUnusedButLast ==
  /\ OneUnused /\ DbUnused /\ RateUnused
  /\ ProtoUnused /\ VarIntUnused /\ ParseUnused /\ DiscUnused

RestUnused == OneUnused /\ DbUnused /\ RateUnused /\ MoreUnused

\* BlacklistManager before its file is loaded
NoBlacklist == [blacklist_cache |-> {}, network_blacklist |-> {}]

\* lines of the blacklist file: an address, or a network lo..hi
Address(h) == [net |-> FALSE, lo |-> h, hi |-> h]
Network(l, h) == [net |-> TRUE, lo |-> l, hi |-> h]

\* import_from_file, one line: add_network for a line with `/', else add_ip
import_line(bl, line) ==
  IF line.net
    THEN [bl EXCEPT !.network_blacklist =
                      @ \cup {[lo |-> line.lo, hi |-> line.hi]}]
    ELSE [bl EXCEPT !.blacklist_cache = @ \cup {line.lo}]

Loaded(bl, line) == import_line(bl, line) = bl

\* MinecraftScanner.__init__ (lines 129-137); no scan_range call yet
ScanConstructed ==
  /\ cpc = "idle"
  /\ running = FALSE
  /\ paused = FALSE
  /\ initialized = FALSE
  /\ start_time = 0
  /\ nextIdx = 0
  /\ cur = 0
  /\ tasks = <<>>
  /\ semaphore = max_concurrent
  /\ pc = [t \in Targets |-> "idle"]
  /\ attempt = [t \in Targets |-> 0]
  /\ outcome = [t \in Targets |-> "none"]
  /\ stats = ScanStats
  /\ blacklist = NoBlacklist
  /\ stopped_mid = FALSE
  /\ launched_after_stop = 0
  /\ launched_in_pause = 0

InitWire ==
  /\ peerKind \in PeerKinds
  /\ doc \in IF peerKind = "reply" THEN Docs ELSE {NoDoc}
  /\ wire = IF peerKind = "reply" THEN StatusReply(doc.len, doc.v) ELSE <<>>
  /\ delivered = 0
  /\ segs = 0
  /\ peerEof = FALSE
  /\ mpc = "connect"
  /\ consumed = 0
  /\ length = 0
  /\ shift = 0
  /\ mresult = Pending
  /\ ScanConstructed
  /\ RestUnused

\* the attempt ends with result r; with a writer open it passes the finally
Return(r, hasWriter) ==
  /\ mresult' = r
  /\ mpc' = IF hasWriter THEN "closing" ELSE "done"

\* asyncio.open_connection completes inside wait_for (lines 157-160)
Connect ==
  /\ mpc = "connect"
  /\ peerKind # "blackhole"
  /\ IF peerKind = "refuse"
       THEN Return(None, FALSE)
       ELSE mpc' = "send" /\ UNCHANGED mresult
  /\ UNCHANGED <<peerKind, doc, wire, delivered, segs, peerEof,
                 consumed, length, shift>>
  /\ UNCHANGED <<scanVars, restVars>>

\* wait_for's deadline passes: it covers open_connection only
Timeout ==
  /\ mpc = "connect"
  /\ Return(None, FALSE)
  /\ UNCHANGED <<peerKind, doc, wire, delivered, segs, peerEof,
                 consumed, length, shift>>
  /\ UNCHANGED <<scanVars, restVars>>

\* handshake and status request written and drained (lines 164-170)
Send ==
  /\ mpc = "send"
  /\ IF peerKind = "reset"
       THEN Return(None, TRUE)
       ELSE mpc' = "len" /\ UNCHANGED mresult
  /\ UNCHANGED <<peerKind, doc, wire, delivered, segs, peerEof,
                 consumed, length, shift>>
  /\ UNCHANGED <<scanVars, restVars>>

Buffered == delivered - consumed

\* one pass of the length loop of _read_packet (lines 227-240)
ReadLenByte ==
  /\ mpc = "len"
  /\ \/ /\ Buffered > 0
        /\ LET st == VarIntStep(length, shift, wire[consumed + 1])
           IN  /\ length' = st.length
               /\ shift' = st.shift
               /\ consumed' = consumed + 1
               /\ IF ~st.more THEN mpc' = "data" /\ UNCHANGED mresult
                  ELSE IF st.overflow THEN Return(None, TRUE)
                  ELSE UNCHANGED <<mpc, mresult>>
     \/ /\ Buffered = 0
        /\ peerEof
        /\ Return(None, TRUE)
        /\ UNCHANGED <<consumed, length, shift>>
  /\ UNCHANGED <<peerKind, doc, wire, delivered, segs, peerEof>>
  /\ UNCHANGED <<scanVars, restVars>>

\* reader.read(length) and the rest of _read_packet and _modern_ping
ReadData ==
  /\ mpc = "data"
  /\ \/ /\ length = 0
        /\ Return(None, TRUE)
        /\ UNCHANGED consumed
     \/ /\ length > 0
        /\ Buffered > 0
        /\ LET n == Min(length, Buffered)
               data == SubSeq(wire, consumed + 1, consumed + n)
           IN  /\ consumed' = consumed + n
               /\ Return(ResponseFromData(data, protocol_version), TRUE)
     \/ /\ length > 0
        /\ Buffered = 0
        /\ peerEof
        /\ Return(None, TRUE)
        /\ UNCHANGED consumed
  /\ UNCHANGED <<peerKind, doc, wire, delivered, segs, peerEof,
                 length, shift>>
  /\ UNCHANGED <<scanVars, restVars>>

\* finally: writer.close(); await writer.wait_closed() (lines 184-186)
Close ==
  /\ mpc = "closing"
  /\ mpc' = "done"
  /\ UNCHANGED <<peerKind, doc, wire, delivered, segs, peerEof,
                 consumed, length, shift, mresult>>
  /\ UNCHANGED <<scanVars, restVars>>

\* the peer's next k bytes arrive as one segment
Deliver(k) ==
  /\ peerKind = "reply"
  /\ mpc \in {"send", "len", "data"}
  /\ ~peerEof
  /\ delivered + k <= Len(wire)
  /\ delivered' = delivered + k
  /\ segs' = segs + 1
  /\ UNCHANGED <<peerKind, doc, wire, peerEof,
                 mpc, consumed, length, shift, mresult>>
  /\ UNCHANGED <<scanVars, restVars>>

\* the peer closes its side
PeerClose ==
  /\ peerKind \in {"close", "reply"}
  /\ mpc \in {"send", "len", "data"}
  /\ ~peerEof
  /\ delivered = Len(wire)
  /\ peerEof' = TRUE
  /\ UNCHANGED <<peerKind, doc, wire, delivered, segs,
                 mpc, consumed, length, shift, mresult>>
  /\ UNCHANGED <<scanVars, restVars>>

ModernPingStep == Connect \/ Send \/ ReadLenByte \/ ReadData \/ Close

NextWire ==
  \/ Connect
  \/ Timeout
  \/ Send
  \/ ReadLenByte
  \/ ReadData
  \/ Close
  \/ \E k \in 1..(Len(wire)) : Deliver(k)
  \/ PeerClose

SpecWire == InitWire /\ [][NextWire]_vars

\* the event loop runs a ready attempt, the deadline timer fires while it is
\* armed, and a peer that replies sends all of its reply
FairSpecWire ==
  /\ SpecWire
  /\ WF_vars(ModernPingStep)
  /\ WF_vars(Timeout)
  /\ WF_vars(\E k \in 1..(Len(wire)) : Deliver(k))

(***************************************************************************)
(* ping_server in single-protocol mode, as the probe task sees it.  One    *)
(* _modern_ping call meets one behaviour of the peer; a reply is buffered  *)
(* completely before it is read.                                           *)
(***************************************************************************)
ScanDocLens == {2, 9}

PingBehaviours ==
  [kind : {"refuse", "close"}, len : {0}] \cup [kind : {"reply"}, len : ScanDocLens]

\* the length loop of _read_packet (lines 224-240) over a buffered stream
RECURSIVE ReadLength(_, _, _, _)
ReadLength(stream, pos, len, sh) ==
  IF pos > Len(stream) THEN [ok |-> FALSE, length |-> 0, next |-> pos]
  ELSE LET st == VarIntStep(len, sh, stream[pos])
       IN  IF ~st.more
             THEN [ok |-> TRUE, length |-> st.length, next |-> pos + 1]
           ELSE IF st.overflow
             THEN [ok |-> FALSE, length |-> 0, next |-> pos + 1]
           ELSE ReadLength(stream, pos + 1, st.length, st.shift)

\* _read_packet and the parsing of _modern_ping over a buffered stream
ReadPacketResult(stream, version) ==
  LET h == ReadLength(stream, 1, 0, 0)
  IN  IF ~h.ok \/ h.length = 0 THEN None
      ELSE ResponseFromData(
             SubSeq(stream, h.next, Min(Len(stream), h.next + h.length - 1)),
             version)

\* what one _modern_ping call returns against behaviour b
modern_ping_result(b) ==
  IF b.kind = "reply"
    THEN ReadPacketResult(StatusReply(b.len, -1), protocol_version)
    ELSE None      \* every exception ends in `return None' (lines 188-190)

\* _ping_single_protocol (lines 142-152): bs[k] is what its k-th _modern_ping
\* call meets; the calls stop at the first document
Attempts == 0..retries
PingPlans == [Attempts -> PingBehaviours]

\* modern_ping_result, tabulated
ResultFor == [b \in PingBehaviours |-> modern_ping_result(b)]

FirstOk(bs) ==
  LET oks == {k \in Attempts : ResultFor[bs[k]].ok}
  IN  IF oks = {} THEN retries
      ELSE CHOOSE k \in oks : \A j \in oks : k <= j

ping_single_protocol(bs) == ResultFor[bs[FirstOk(bs)]]

\* nothing listened / the peer accepted and the exchange failed / a document
Classify(b, r) ==
  IF r.ok THEN "found" ELSE IF b.kind = "refuse" THEN "noresp" ELSE "neterr"

(***************************************************************************)
(* The probe task of target t: _scan_target_with_semaphore, _scan_target.  *)
(***************************************************************************)
\* (C3) a gate that lets every task in
semaphore_free_always(v) == TRUE

\* asyncio.Semaphore.acquire proceeds only while the value is positive
semaphore_free(v) == v > 0

\* (C13) a check that looks at the exact addresses only
is_blacklisted_cache_only(ip) == ip \in blacklist.blacklist_cache

\* BlacklistManager.is_blacklisted, for an ip that is an address: in the
\* cache, or inside one of the networks
is_blacklisted(ip) ==
  \/ ip \in blacklist.blacklist_cache
  \/ \E network \in blacklist.network_blacklist :
       network.lo <= ip /\ ip <= network.hi

\* (C5) `break' in the place of `return' at line 245: line 333 runs too
CountBlacklistedFallThrough(st) ==
  [st EXCEPT !.blacklisted_skipped = @ + 1, !.total_scanned = @ + 1]

\* line 244
CountBlacklisted(st) == [st EXCEPT !.blacklisted_skipped = @ + 1]

\* line 333
CountScanned(st) == [st EXCEPT !.total_scanned = @ + 1]

InProbe == {"ping", "process", "backoff", "hung"}

\* the task returns: its locals are gone, the gate is left (line 232)
Leave(t, sem) ==
  /\ semaphore' = sem + 1
  /\ pc' = [pc EXCEPT ![t] = "done"]
  /\ attempt' = [attempt EXCEPT ![t] = 0]

\* From the test of the while loop (line 240) to the next await: the task is
\* in the gate with att attempts behind it, the semaphore value being sem.
LoopTop(t, att, sem) ==
  IF att > retries
    THEN \* loop exhausted: line 333
         /\ stats' = CountScanned(stats)
         /\ Leave(t, sem)
         /\ UNCHANGED outcome
  ELSE IF is_blacklisted(HostOf(t))
    THEN \* lines 243-245
         /\ stats' = CountBlacklisted(stats)
         /\ Leave(t, sem)
         /\ outcome' = [outcome EXCEPT ![t] = "blacklisted"]
  ELSE \* line 249: await ping_server
         /\ pc' = [pc EXCEPT ![t] = "ping"]
         /\ attempt' = [attempt EXCEPT ![t] = att]
         /\ semaphore' = sem
         /\ UNCHANGED <<stats, outcome>>

coordVars == <<cpc, running, paused, initialized, start_time, nextIdx, cur,
               tasks>>
histVars == <<stopped_mid, launched_after_stop, launched_in_pause>>

\* the task gets the gate and runs up to its first await
ProbeStart(t) ==
  /\ pc[t] = "created"
  /\ semaphore_free(semaphore)
  /\ LoopTop(t, 0, semaphore - 1)
  /\ UNCHANGED <<coordVars, blacklist, histVars, wireVars, restVars>>

\* the outcome to remember after an attempt that ended as o
Terminal(att, o) == IF att > retries THEN o ELSE "none"

\* ping_server returns (line 249)
PingServer(t, bs) ==
  /\ pc[t] = "ping"
  /\ LET r == ping_single_protocol(bs)
     IN  IF r.ok
           THEN \* line 252: a document, on to parse and store
                /\ pc' = [pc EXCEPT ![t] = "process"]
                /\ UNCHANGED <<attempt, outcome>>
           ELSE \* lines 318-324
                /\ attempt' = [attempt EXCEPT ![t] = @ + 1]
                /\ pc' = [pc EXCEPT ![t] = "backoff"]
                /\ outcome' = [outcome EXCEPT ![t] =
                     Terminal(attempt[t] + 1, Classify(bs[retries], r))]
  /\ UNCHANGED <<coordVars, semaphore, stats, blacklist, histVars, wireVars,
                 restVars>>

\* the peer accepted and never writes: no timeout guards reader.read
PingServerHangs(t) ==
  /\ pc[t] = "ping"
  /\ pc' = [pc EXCEPT ![t] = "hung"]
  /\ UNCHANGED <<coordVars, semaphore, attempt, outcome, stats, blacklist,
                 histVars, wireVars, restVars>>

\* parse_response, geolocation and store_server return or one of them raises
Process(t, raises) ==
  /\ pc[t] = "process"
  /\ IF raises
       THEN \* lines 325-332
            /\ attempt' = [attempt EXCEPT ![t] = @ + 1]
            /\ stats' = IF attempt[t] + 1 > retries
                          THEN [stats EXCEPT !.errors = @ + 1] ELSE stats
            /\ pc' = [pc EXCEPT ![t] = "backoff"]
            /\ outcome' = [outcome EXCEPT ![t] =
                             Terminal(attempt[t] + 1, "procerr")]
            /\ UNCHANGED semaphore
       ELSE \* lines 291-316 (what callback, webhook and modules raise is
            \* caught there), break, line 333
            /\ stats' = CountScanned([stats EXCEPT !.servers_found = @ + 1])
            /\ Leave(t, semaphore)
            /\ outcome' = [outcome EXCEPT ![t] = "found"]
  /\ UNCHANGED <<coordVars, blacklist, histVars, wireVars, restVars>>

\* asyncio.sleep(0.1 * attempt) is over (lines 324, 332)
Backoff(t) ==
  /\ pc[t] = "backoff"
  /\ LoopTop(t, attempt[t], semaphore)
  /\ UNCHANGED <<coordVars, blacklist, histVars, wireVars, restVars>>

(***************************************************************************)
(* The coordinator: scan_range.                                            *)
(***************************************************************************)
probeVars == <<semaphore, pc, attempt, outcome, stats>>

InLoop == {"gen", "pause_sleep", "mem", "rate", "gather"}

\* (C7) a loop that never looks at running
should_break_never(r) == FALSE

\* line 182
should_break(r) == ~r

\* (C8) a loop that never looks at paused
must_wait_never(p) == FALSE

\* line 185
must_wait(p) == p

\* scan_range is called (lines 165-167)
ScanRangeCall ==
  /\ cpc = "idle"
  /\ IF ~initialized
       THEN cpc' = "init" /\ UNCHANGED <<running, start_time>>
       ELSE cpc' = "gen" /\ running' = TRUE /\ start_time' = 1
  /\ UNCHANGED <<paused, initialized, nextIdx, cur, tasks, probeVars,
                 blacklist, histVars, wireVars, restVars>>

\* initialize() returns (lines 144-153), then lines 169-179
InitializeDone ==
  /\ cpc = "init"
  /\ initialized' = TRUE
  /\ running' = TRUE
  /\ start_time' = 1
  /\ cpc' = "gen"
  /\ UNCHANGED <<paused, nextIdx, cur, tasks, probeVars, blacklist, histVars,
                 wireVars, restVars>>

\* the generator yields or is exhausted, then lines 182-186
NextTarget ==
  /\ cpc = "gen"
  /\ IF nextIdx = NumTargets
       THEN cpc' = "gather" /\ UNCHANGED <<nextIdx, cur>>
       ELSE /\ nextIdx' = nextIdx + 1
            /\ cur' = nextIdx + 1
            /\ cpc' = IF should_break(running) THEN "gather"
                      ELSE IF must_wait(paused) THEN "pause_sleep"
                      ELSE "mem"
  /\ UNCHANGED <<running, paused, initialized, start_time, tasks, probeVars,
                 blacklist, histVars, wireVars, restVars>>

\* asyncio.sleep(0.1) of the pause loop is over (lines 185-186)
PauseWake ==
  /\ cpc = "pause_sleep"
  /\ cpc' = IF must_wait(paused) THEN "pause_sleep" ELSE "mem"
  /\ UNCHANGED <<running, paused, initialized, start_time, nextIdx, cur,
                 tasks, probeVars, blacklist, histVars, wireVars, restVars>>

\* memory_manager.check_usage() returns (line 189)
MemCheck ==
  /\ cpc = "mem"
  /\ cpc' = "rate"
  /\ UNCHANGED <<running, paused, initialized, start_time, nextIdx, cur,
                 tasks, probeVars, blacklist, histVars, wireVars, restVars>>

\* _process_completed_tasks (lines 337-343)
WithoutCompleted(ts) == SelectSeq(ts, LAMBDA t : pc[t] # "done")

\* rate_limiter.acquire() returns, the task is created (lines 192-209)
Launch ==
  /\ cpc = "rate"
  /\ pc' = [pc EXCEPT ![cur] = "created"]
  /\ tasks' = IF Len(tasks) + 1 >= batch_size
                THEN WithoutCompleted(tasks) \o <<cur>>
                ELSE Append(tasks, cur)
  /\ cpc' = "gen"
  /\ launched_after_stop' = launched_after_stop + (IF stopped_mid THEN 1 ELSE 0)
  /\ launched_in_pause' = launched_in_pause + (IF paused THEN 1 ELSE 0)
  /\ UNCHANGED <<running, paused, initialized, start_time, nextIdx, cur,
                 semaphore, attempt, outcome, stats, blacklist,
                 stopped_mid, wireVars, restVars>>

\* gather returns, _finalize_scan, finally (lines 212-228)
FinishScan ==
  /\ cpc = "gather"
  /\ \A i \in 1..Len(tasks) : pc[tasks[i]] = "done"
  /\ running' = FALSE
  /\ cpc' = "returned"
  /\ UNCHANGED <<paused, initialized, start_time, nextIdx, cur, tasks,
                 probeVars, blacklist, histVars, wireVars, restVars>>

(***************************************************************************)
(* Calls from the user interface and the blacklist watcher.                *)
(***************************************************************************)
Pause ==
  /\ paused' = TRUE
  /\ launched_in_pause' = IF paused THEN launched_in_pause ELSE 0
  /\ UNCHANGED <<cpc, running, initialized, start_time, nextIdx, cur, tasks,
                 probeVars, blacklist, stopped_mid, launched_after_stop,
                 wireVars, restVars>>

Resume ==
  /\ paused' = FALSE
  /\ launched_in_pause' = 0
  /\ UNCHANGED <<cpc, running, initialized, start_time, nextIdx, cur, tasks,
                 probeVars, blacklist, stopped_mid, launched_after_stop,
                 wireVars, restVars>>

Stop ==
  /\ running' = FALSE
  /\ stopped_mid' = (stopped_mid \/ (running /\ cpc \in InLoop))
  /\ UNCHANGED <<cpc, paused, initialized, start_time, nextIdx, cur, tasks,
                 probeVars, blacklist, launched_after_stop, launched_in_pause,
                 wireVars, restVars>>

\* the line of the blacklist file: a network that holds the last host
BlacklistFile == {Network(HostOf(NumTargets), HostOf(NumTargets) + 1)}

\* the watcher reloads the file and line h is now loaded
BlacklistReload(h) ==
  /\ ~Loaded(blacklist, h)
  /\ blacklist' = import_line(blacklist, h)
  /\ UNCHANGED <<coordVars, probeVars, histVars, wireVars, restVars>>

ProbeStep(t) ==
  \/ ProbeStart(t)
  \/ \E bs \in PingPlans : PingServer(t, bs)
  \/ \E raises \in BOOLEAN : Process(t, raises)
  \/ Backoff(t)

CoordinatorStep ==
  ScanRangeCall \/ InitializeDone \/ NextTarget \/ PauseWake \/ MemCheck
    \/ Launch \/ FinishScan

\* the wire variables, unused by the scan
WireUnused ==
  /\ peerKind = "refuse"
  /\ doc = NoDoc
  /\ wire = <<>>
  /\ delivered = 0
  /\ segs = 0
  /\ peerEof = FALSE
  /\ mpc = "done"
  /\ consumed = 0
  /\ length = 0
  /\ shift = 0
  /\ mresult = None

Init == ScanConstructed /\ WireUnused /\ RestUnused

Next ==
  \/ ScanRangeCall
  \/ InitializeDone
  \/ NextTarget
  \/ PauseWake
  \/ MemCheck
  \/ Launch
  \/ FinishScan
  \/ \E t \in Targets : ProbeStart(t)
  \/ \E t \in Targets, bs \in PingPlans : PingServer(t, bs)
  \/ \E t \in Targets : PingServerHangs(t)
  \/ \E t \in Targets, raises \in BOOLEAN : Process(t, raises)
  \/ \E t \in Targets : Backoff(t)
  \/ Pause
  \/ Resume
  \/ Stop
  \/ \E h \in BlacklistFile : BlacklistReload(h)

Spec == Init /\ [][Next]_vars

\* the event loop runs every task that is ready; the calls of the user and
\* of the watcher may or may not come
FairSpec ==
  /\ Spec
  /\ WF_vars(CoordinatorStep)
  /\ \A t \in Targets : WF_vars(ProbeStep(t))

(***************************************************************************)
(* One probe, statement by statement (SpecProbe): _scan_target for one     *)
(* target, ping_server in single-protocol mode with its own loop, the      *)
(* store_server call and the observers; the blacklist may be reloaded      *)
(* while the probe runs.                                                   *)
(***************************************************************************)
\* result_callback, webhook, and the list modules with two members
Observers == <<"result_callback", "webhook", "module", "module">>

\* what the callees raise: is_blacklisted on an ip string that is no
\* address, parse_response, get_location_data, an observer
Raised == {"ValueError", "ParsingError", "GeolocationError", "Exception"}

\* (C11) a handler for the parser's errors only
except_ParsingError(e) == e = "ParsingError"

\* `except Exception' of _scan_target (line 325): every class of Raised is
\* a subclass of Exception
except_Exception(e) == e \in Raised

\* (C12) observers called with no try around them
observer_uncaught(e) == FALSE

\* the try/except around each observer (lines 298-313)
observer_caught(e) == e \in Raised

\* (C18) a store_server that lets its failure out
store_server_raises_on_failure(committed) == ~committed

\* store_server catches every exception and returns False (database.py,
\* lines 389-391 and 641-643); _scan_target drops the value
store_server_raises(committed) == FALSE

scanButBlacklist ==
  <<cpc, running, paused, initialized, start_time, nextIdx, cur, tasks,
    semaphore, pc, attempt, outcome, stats, stopped_mid, launched_after_stop,
    launched_in_pause>>

offProbeVars == <<scanButBlacklist, wireVars, dbVars, rateVars, moreVars>>

InitProbe ==
  /\ p_target \in Targets
  /\ p_valid \in BOOLEAN
  /\ p_pc = "created"
  /\ p_attempt = 0
  /\ p_inner = 0
  /\ p_obs = 1
  /\ p_stats = ScanStats
  /\ p_conns = 0
  /\ p_inflight = 0
  /\ p_nobackoff = FALSE
  /\ p_raises = 0
  /\ p_stores = 0
  /\ p_rows = 0
  /\ p_notified = {}
  /\ p_late = FALSE
  /\ ScanConstructed
  /\ WireUnused
  /\ DbUnused
  /\ RateUnused
  /\ MoreUnused

\* an exception e reaches the try of _scan_target after att attempts
\* (lines 325-332); one that no handler takes ends the task
Raise(e, att) ==
  /\ p_raises' = p_raises + 1
  /\ IF except_Exception(e)
       THEN /\ p_attempt' = att + 1
            /\ p_stats' = IF att + 1 > retries
                            THEN [p_stats EXCEPT !.errors = @ + 1]
                            ELSE p_stats
            /\ p_pc' = "sleep"
       ELSE /\ p_pc' = "raised"
            /\ p_attempt' = att
            /\ UNCHANGED p_stats

\* from the test of the while loop (line 240) to the next await
ProbeLoopTop(att) ==
  IF att > retries
    THEN \* line 333
         /\ p_stats' = [p_stats EXCEPT !.total_scanned = @ + 1]
         /\ p_pc' = "done"
         /\ p_attempt' = att
         /\ UNCHANGED <<p_inner, p_conns, p_inflight, p_raises>>
  ELSE IF ~p_valid
    THEN \* ipaddress.ip_address raises ValueError, which the
         \* `except AddressValueError' of is_blacklisted does not take
         /\ Raise("ValueError", att)
         /\ UNCHANGED <<p_inner, p_conns, p_inflight>>
  ELSE IF is_blacklisted(HostOf(p_target))
    THEN \* lines 243-245
         /\ p_stats' = [p_stats EXCEPT !.blacklisted_skipped = @ + 1]
         /\ p_pc' = "done"
         /\ p_attempt' = att
         /\ UNCHANGED <<p_inner, p_conns, p_inflight, p_raises>>
  ELSE \* line 249, protocol.py lines 142-144 and 157-160: the first
       \* connection of this ping_server call is asked for
         /\ p_pc' = "connect"
         /\ p_attempt' = att
         /\ p_inner' = 0
         /\ p_conns' = p_conns + 1
         /\ p_inflight' = p_inflight + 1
         /\ UNCHANGED <<p_stats, p_raises>>

\* the task is run for the first time
ProbeBegin ==
  /\ p_pc = "created"
  /\ ProbeLoopTop(0)
  /\ UNCHANGED <<p_target, p_valid, p_obs, p_nobackoff, p_stores, p_rows,
                 p_notified, p_late, blacklist, offProbeVars>>

\* asyncio.sleep(0.1 * attempt) is over (lines 324, 332)
ProbeWake ==
  /\ p_pc = "sleep"
  /\ ProbeLoopTop(p_attempt)
  /\ UNCHANGED <<p_target, p_valid, p_obs, p_nobackoff, p_stores, p_rows,
                 p_notified, p_late, blacklist, offProbeVars>>

\* _modern_ping returns a document (found) or None; after None the loop of
\* _ping_single_protocol calls it again at once, its sleep being in the
\* except branch that nothing reaches (protocol.py, lines 142-152)
ModernPingReturns(found) ==
  /\ p_pc = "connect"
  /\ IF found
       THEN /\ p_pc' = "parse"
            /\ p_inflight' = p_inflight - 1
            /\ UNCHANGED <<p_attempt, p_inner, p_conns, p_nobackoff>>
     ELSE IF p_inner < retries
       THEN /\ p_inner' = p_inner + 1
            /\ p_conns' = p_conns + 1
            /\ p_nobackoff' = TRUE
            /\ UNCHANGED <<p_pc, p_attempt, p_inflight>>
     ELSE \* ping_server returns None: scanner.py lines 318-324
            /\ p_attempt' = p_attempt + 1
            /\ p_pc' = "sleep"
            /\ p_inflight' = p_inflight - 1
            /\ UNCHANGED <<p_inner, p_conns, p_nobackoff>>
  /\ UNCHANGED <<p_target, p_valid, p_obs, p_stats, p_raises, p_stores,
                 p_rows, p_notified, p_late, blacklist, offProbeVars>>

\* parse_response returns or raises ParsingError (line 254)
ParserReturns(raises) ==
  /\ p_pc = "parse"
  /\ IF raises
       THEN Raise("ParsingError", p_attempt)
       ELSE p_pc' = "geo" /\ UNCHANGED <<p_attempt, p_stats, p_raises>>
  /\ UNCHANGED <<p_target, p_valid, p_inner, p_obs, p_conns, p_inflight,
                 p_nobackoff, p_stores, p_rows, p_notified, p_late,
                 blacklist, offProbeVars>>

\* geolocation inside its own try (lines 266-281), then ScanResult
Geolocate(raises) ==
  /\ p_pc = "geo"
  /\ p_pc' = "store"
  /\ p_raises' = p_raises + (IF raises THEN 1 ELSE 0)
  /\ UNCHANGED <<p_target, p_valid, p_attempt, p_inner, p_obs, p_stats,
                 p_conns, p_inflight, p_nobackoff, p_stores, p_rows,
                 p_notified, p_late, blacklist, offProbeVars>>

\* store_server returns (line 291), then line 294
StoreReturns(committed) ==
  /\ p_pc = "store"
  /\ p_stores' = p_stores + 1
  /\ p_rows' = p_rows + (IF committed THEN 1 ELSE 0)
  /\ IF store_server_raises(committed)
       THEN Raise("Exception", p_attempt) /\ UNCHANGED p_obs
       ELSE /\ p_stats' = [p_stats EXCEPT !.servers_found = @ + 1]
            /\ p_obs' = 1
            /\ p_pc' = "notify"
            /\ UNCHANGED <<p_attempt, p_raises>>
  /\ UNCHANGED <<p_target, p_valid, p_inner, p_conns, p_inflight,
                 p_nobackoff, p_notified, p_late, blacklist, offProbeVars>>

\* the next observer is invoked and returns or raises (lines 297-313);
\* after the last one: break, line 333
Notify(raises) ==
  /\ p_pc = "notify"
  /\ p_notified' = p_notified \cup {p_obs}
  /\ IF raises /\ ~observer_caught("Exception")
       THEN Raise("Exception", p_attempt) /\ UNCHANGED p_obs
     ELSE /\ p_raises' = p_raises + (IF raises THEN 1 ELSE 0)
          /\ UNCHANGED p_attempt
          /\ IF p_obs = Len(Observers)
               THEN /\ p_stats' = [p_stats EXCEPT !.total_scanned = @ + 1]
                    /\ p_pc' = "done"
                    /\ UNCHANGED p_obs
               ELSE /\ p_obs' = p_obs + 1
                    /\ UNCHANGED <<p_stats, p_pc>>
  /\ UNCHANGED <<p_target, p_valid, p_inner, p_conns, p_inflight,
                 p_nobackoff, p_stores, p_rows, p_late, blacklist,
                 offProbeVars>>

\* lines the blacklist file may hold: each host, and a network of two hosts
BlacklistLines ==
  {Address(h) : h \in Hosts} \cup {Network(h, h + 1) : h \in Hosts}

\* the watcher reloads the file while the probe exists
ProbeBlacklistReload(line) ==
  /\ ~Loaded(blacklist, line)
  /\ blacklist' = import_line(blacklist, line)
  /\ p_late' = (p_late \/ p_pc # "created")
  /\ UNCHANGED <<p_target, p_valid, p_pc, p_attempt, p_inner, p_obs, p_stats,
                 p_conns, p_inflight, p_nobackoff, p_raises, p_stores,
                 p_rows, p_notified, offProbeVars>>

NextProbe ==
  \/ ProbeBegin
  \/ ProbeWake
  \/ \E found \in BOOLEAN : ModernPingReturns(found)
  \/ \E raises \in BOOLEAN : ParserReturns(raises)
  \/ \E raises \in BOOLEAN : Geolocate(raises)
  \/ \E committed \in BOOLEAN : StoreReturns(committed)
  \/ \E raises \in BOOLEAN : Notify(raises)
  \/ \E line \in BlacklistLines : ProbeBlacklistReload(line)

SpecProbe == InitProbe /\ [][NextProbe]_vars

(***************************************************************************)
(* The store (SpecStore): the tables servers and server_status of one of   *)
(* the backends, written by store_server alone, which _scan_target calls   *)
(* for a probe that found a server and for no other probe.  CURRENT_       *)
(* TIMESTAMP has a resolution of one second.  REAL values are kept in      *)
(* hundredths.                                                             *)
(***************************************************************************)
NumEndpoints == 2     \* endpoints probed
MaxProbes == 3        \* probes of one endpoint (over several scans)
MaxDbTime == 2        \* seconds the clock of the database advances

Endpoints == 1..NumEndpoints
Backends == {"sqlite", "postgresql"}

\* x / y * 100 of the SQL expressions, in hundredths
Percentage(x, y) == (x * 10000) \div y

\* DEFAULT 0.0 of the column availability_percentage
DefaultAvailability == 0

NoRow ==
  [present |-> FALSE, total_scans |-> 0, successful_scans |-> 0,
   availability_percentage |-> DefaultAvailability]

\* COALESCE((SELECT col FROM servers WHERE ...), 0): NoRow holds the zeros
\* SQLiteBackend.store_server, line 349: INSERT OR REPLACE INTO servers
SqliteUpsert(row) ==
  [present |-> TRUE,
   total_scans |-> row.total_scans + 1,
   successful_scans |-> row.successful_scans + 1,
   availability_percentage |->
     Percentage(row.successful_scans + 1, row.total_scans + 1)]

\* PostgreSQLBackend.store_server, line 627: INSERT names no
\* availability_percentage, ON CONFLICT DO UPDATE sets it
PostgresUpsert(row) ==
  [present |-> TRUE,
   total_scans |-> row.total_scans + 1,
   successful_scans |-> row.successful_scans + 1,
   availability_percentage |->
     IF row.present
       THEN Percentage(row.successful_scans + 1, row.total_scans + 1)
       ELSE DefaultAvailability]

\* PRIMARY KEY (ip, port, scan_time) of server_status
SnapshotKeyTaken(e, t) ==
  \E i \in 1..Len(server_status) :
    server_status[i].endpoint = e /\ server_status[i].scan_time = t

offStoreVars == <<wireVars, scanVars, oneVars, rateVars, moreVars>>

InitStore ==
  /\ backend \in Backends
  /\ servers = [e \in Endpoints |-> NoRow]
  /\ server_status = <<>>
  /\ db_time = 0
  /\ probes = [e \in Endpoints |-> [done |-> 0, found |-> 0]]
  /\ ScanConstructed
  /\ WireUnused
  /\ OneUnused
  /\ RateUnused
  /\ MoreUnused

\* A probe of endpoint e finds a server and calls store_server (scanner.py,
\* line 291).  fault: a statement fails for a reason of its own (disk,
\* lock, connection).  On SQLite both INSERTs run on one connection that
\* commits at the end or is closed uncommitted; on PostgreSQL the one
\* statement is its own transaction.
ProbeStores(e, fault) ==
  /\ probes[e].done < MaxProbes
  /\ probes' = [probes EXCEPT ![e] = [done |-> @.done + 1,
                                     found |-> @.found + 1]]
  /\ IF backend = "sqlite"
       THEN IF fault \/ SnapshotKeyTaken(e, db_time)
              THEN UNCHANGED <<servers, server_status>>
              ELSE /\ servers' = [servers EXCEPT ![e] = SqliteUpsert(@)]
                   /\ server_status' =
                        Append(server_status,
                               [endpoint |-> e, scan_time |-> db_time])
       ELSE /\ servers' = IF fault THEN servers
                          ELSE [servers EXCEPT ![e] = PostgresUpsert(@)]
            /\ UNCHANGED server_status
  /\ UNCHANGED <<backend, db_time, offStoreVars>>

\* a probe of endpoint e ends with no server found (no response, or an
\* error on the last attempt): _scan_target has no store call on that path
\* (scanner.py, lines 317-333)
ProbeFindsNothing(e) ==
  /\ probes[e].done < MaxProbes
  /\ probes' = [probes EXCEPT ![e].done = @ + 1]
  /\ UNCHANGED <<backend, servers, server_status, db_time, offStoreVars>>

\* a second passes
DbTick ==
  /\ db_time < MaxDbTime
  /\ db_time' = db_time + 1
  /\ UNCHANGED <<backend, servers, server_status, probes, offStoreVars>>

NextStore ==
  \/ \E e \in Endpoints, fault \in BOOLEAN : ProbeStores(e, fault)
  \/ \E e \in Endpoints : ProbeFindsNothing(e)
  \/ DbTick

SpecStore == InitStore /\ [][NextStore]_vars

(***************************************************************************)
(* utils/concurrency.py : RateLimiter.  Time is counted in ticks, the time *)
(* in which TicksPerToken ticks refill one token, and tokens are counted   *)
(* in units of 1/TicksPerToken token, so that `elapsed * rate' tokens are  *)
(* `elapsed' units.  time.time() does not run backwards.                   *)
(*   SpecRate      the limiter under concurrent acquire calls.             *)
(*   SpecScanRate  the limiter as scan_range uses it: one caller, the      *)
(*                 coordinator, acquire() then create_task.                *)
(***************************************************************************)
rate_limit == 3        \* ScannerConfig.rate_limit, tokens per second
TicksPerToken == 1     \* resolution of the clock
NumCallers == 2        \* tasks that call acquire
MaxClock == 34         \* ticks the clock advances in SpecScanRate ...
RateHorizon == 10      \* ... and in SpecRate

Acquirers == 1..NumCallers
Coordinator == 1

\* RateLimiter.__init__: burst or rate, with burst = None
burst == rate_limit

Capacity == burst * TicksPerToken
Need(n) == n * TicksPerToken
TicksPerSecond == rate_limit * TicksPerToken

\* the window over which the rate is measured: ten seconds
Window == 10 * TicksPerSecond

\* (C20) a refill with no upper limit
RefillUncapped(tok, elapsed) == tok + elapsed

\* line 96: min(self.burst, self.tokens + elapsed * self.rate)
Refill(tok, elapsed) == Min(Capacity, tok + elapsed)

NotCalling == [pc |-> "idle", n |-> 0, wake |-> 0, flip |-> FALSE]

offRateVars == <<wireVars, scanVars, oneVars, dbVars, moreVars>>

InitRate ==
  /\ tokens = Capacity
  /\ last_update = 0
  /\ clock = 0
  /\ acq = [p \in Acquirers |-> NotCalling]
  /\ warm = FALSE
  /\ win_start = -1
  /\ win_count = 0
  /\ ScanConstructed
  /\ WireUnused
  /\ OneUnused
  /\ DbUnused
  /\ MoreUnused

\* the coordinator's acquire() returned inside the observed window: the
\* probe is launched with no await in between (scanner.py, lines 192-198)
InWindow(p) ==
  /\ p = Coordinator
  /\ win_start >= 0
  /\ clock < win_start + Window

\* One pass through acquire(n) by caller p (lines 89-111): the body of
\* `async with self.lock' has no await, so it runs in one piece and the
\* lock is never found taken; then either return or sleep.
acquire(p, n) ==
  LET t == Refill(tokens, clock - last_update)
  IN  /\ last_update' = clock
      /\ IF t >= Need(n)
           THEN /\ tokens' = t - Need(n)
                /\ acq' = [acq EXCEPT ![p] =
                             [pc |-> "idle", n |-> n, wake |-> 0,
                              flip |-> ~acq[p].flip]]
                /\ win_count' = win_count + (IF InWindow(p) THEN 1 ELSE 0)
           ELSE /\ tokens' = t
                /\ acq' = [acq EXCEPT ![p] =
                             [pc |-> "sleeping", n |-> n,
                              wake |-> clock + (Need(n) - t),
                              flip |-> acq[p].flip]]
                /\ UNCHANGED win_count
      /\ warm' = (warm \/ tokens' < Need(1))
      /\ UNCHANGED <<clock, win_start, offRateVars>>

\* caller p calls acquire(n)
AcquireCall(p, n) ==
  /\ acq[p].pc = "idle"
  /\ acquire(p, n)

\* asyncio.sleep(wait_time) of caller p is over, not before its time, and
\* acquire calls itself (lines 107-111)
AcquireAgain(p) ==
  /\ acq[p].pc = "sleeping"
  /\ clock >= acq[p].wake
  /\ acquire(p, acq[p].n)

Tick(horizon) ==
  /\ clock < horizon
  /\ clock' = clock + 1
  /\ UNCHANGED <<tokens, last_update, acq, warm, win_start, win_count,
                 offRateVars>>

\* the observer starts its window, after warm-up
OpenWindow ==
  /\ warm
  /\ win_start = -1
  /\ win_start' = clock
  /\ UNCHANGED <<tokens, last_update, clock, acq, warm, win_count,
                 offRateVars>>

NextRate ==
  \/ \E p \in Acquirers, n \in 1..burst : AcquireCall(p, n)
  \/ \E p \in Acquirers : AcquireAgain(p)
  \/ Tick(RateHorizon)

SpecRate == InitRate /\ [][NextRate]_vars

NextScanRate ==
  \/ AcquireCall(Coordinator, 1)
  \/ AcquireAgain(Coordinator)
  \/ Tick(MaxClock)
  \/ OpenWindow

SpecScanRate == InitRate /\ [][NextScanRate]_vars

(***************************************************************************)
(* FairSpecRate: the same RateLimiter with no end of time.  acquire reads  *)
(* the clock only in now - self.last_update and in the length of its       *)
(* sleep, so the state is kept relative to the present instant: clock      *)
(* stays 0, and when a tick passes last_update moves one tick into the     *)
(* past (no further than the refill of a whole bucket, which is all        *)
(* line 96 can use) and every sleep has one tick less to go.  Callers ask  *)
(* for 1..burst + 1 tokens.                                                *)
(***************************************************************************)
TimePasses ==
  /\ last_update' = Max(last_update - 1, 0 - Capacity)
  /\ acq' = [p \in Acquirers |->
               IF acq[p].pc = "sleeping"
                 THEN [acq[p] EXCEPT !.wake = Max(@ - 1, 0)]
                 ELSE acq[p]]
  /\ UNCHANGED <<tokens, clock, warm, win_start, win_count, offRateVars>>

NextRateForever ==
  \/ \E p \in Acquirers, n \in 1..(burst + 1) : AcquireCall(p, n)
  \/ \E p \in Acquirers : AcquireAgain(p)
  \/ TimePasses

\* time advances, and a caller whose sleep is over runs again
FairSpecRate ==
  /\ InitRate
  /\ [][NextRateForever]_vars
  /\ WF_vars(TimePasses)
  /\ \A p \in Acquirers : WF_vars(AcquireAgain(p))

(***************************************************************************)
(* SpecProto: one ping_server call (core/protocol.py, lines 101-152 and    *)
(* 274-305), one connection at a time.                                     *)
(***************************************************************************)
MostCommonProtocol == 770   \* the literal of _ping_with_protocol_detection
legacy == -1                \* 'legacy', written as the protocol number a
                            \* legacy response carries

\* ProtocolConfig values the call is followed for.  protocol_versions is
\* never empty: __post_init__ replaces an empty list by the default one,
\* which starts with 770.
PreferredVersions == {protocol_version, 47}
ProtocolLists == {<<770, 767>>, <<47, 5>>, <<767>>}
ProtocolConfigs ==
  [protocol_version : PreferredVersions,
   protocol_versions : ProtocolLists,
   scan_all_protocols : BOOLEAN,
   legacy_support : BOOLEAN]

\* what a connection ends in: a status document, a malformed reply (bad
\* VarInt, invalid JSON), or no reply (refused, timed out, closed)
ModernReplies == {"reply", "malformed", "failed"}
LegacyReplies == {"reply", "failed"}

\* the return value of ping_server; a key that is absent is the empty set
PingNone ==
  [ok |-> FALSE, ping_protocol_used |-> {}, detected_protocol |-> {},
   protocol_detection_used |-> FALSE]

PingResult(used, detected, detection) ==
  [ok |-> TRUE, ping_protocol_used |-> {used}, detected_protocol |-> detected,
   protocol_detection_used |-> detection]

oldVars == <<wireVars, scanVars, oneVars, dbVars, rateVars>>

offProtoVars == <<oldVars, varintVars, parseVars, discVars, lastVars>>

InitProto ==
  /\ config \in ProtocolConfigs
  /\ pp_pc = "call"
  /\ pp_idx = 0
  /\ pp_attempt = 0
  /\ pp_result = PingNone
  /\ pp_conns = <<>>
  /\ ScanConstructed
  /\ WireUnused
  /\ OneUnused
  /\ DbUnused
  /\ RateUnused
  /\ VarIntUnused
  /\ ParseUnused
  /\ DiscUnused
  /\ LastUnused

\* ping_server (lines 101-106)
PingServerCall ==
  /\ pp_pc = "call"
  /\ pp_pc' = IF config.scan_all_protocols THEN "first" ELSE "single"
  /\ UNCHANGED <<config, pp_idx, pp_attempt, pp_result, pp_conns>>
  /\ UNCHANGED offProtoVars

\* the protocol_version argument of the _ping_single_protocol call under way
VersionTried ==
  CASE pp_pc = "first" -> MostCommonProtocol                  \* line 112
    [] pp_pc = "fallback" -> config.protocol_versions[pp_idx] \* line 118
    [] OTHER -> config.protocol_version                       \* line 106

\* mutant of legacy_wanted: the legacy ping whatever the configuration
legacy_wanted_always == TRUE

\* line 131: if self.config.legacy_support
legacy_wanted == config.legacy_support

\* _modern_ping returns (lines 154-190).  A document is returned by
\* _ping_single_protocol at once (line 146) and annotated by the caller
\* (lines 113-116, 121-125); None, which is what every failure and every
\* malformed reply become (lines 187-190), sends the loop of
\* _ping_single_protocol round again (line 142) until retries + 1 attempts
\* are spent, and then the caller on to its next path.
ModernPing(reply) ==
  /\ pp_pc \in {"first", "fallback", "single"}
  /\ pp_conns' = Append(pp_conns, [slot |-> pp_idx, version |-> VersionTried,
                                   reply |-> reply])
  /\ IF reply = "reply"
       THEN /\ pp_result' =
                 CASE pp_pc = "first" ->
                        PingResult(VersionTried, {MostCommonProtocol}, FALSE)
                   [] pp_pc = "fallback" ->
                        PingResult(VersionTried, {VersionTried}, TRUE)
                   [] OTHER -> PingResult(VersionTried, {}, FALSE)
            /\ pp_pc' = "returned"
            /\ UNCHANGED <<pp_idx, pp_attempt>>
       ELSE IF pp_attempt < retries
         THEN /\ pp_attempt' = pp_attempt + 1
              /\ UNCHANGED <<pp_pc, pp_idx, pp_result>>
         ELSE /\ pp_attempt' = 0
              /\ IF pp_pc = "single"
                   THEN /\ pp_pc' = "returned"
                        /\ pp_result' = PingNone
                        /\ UNCHANGED pp_idx
                   ELSE IF pp_idx < Len(config.protocol_versions)
                     THEN /\ pp_pc' = "fallback"
                          /\ pp_idx' = pp_idx + 1
                          /\ UNCHANGED pp_result
                     ELSE IF legacy_wanted
                       THEN /\ pp_pc' = "legacy"
                            /\ pp_idx' = pp_idx + 1
                            /\ UNCHANGED pp_result
                       ELSE /\ pp_pc' = "returned"
                            /\ pp_result' = PingNone
                            /\ UNCHANGED pp_idx
  /\ UNCHANGED config
  /\ UNCHANGED offProtoVars

\* _legacy_ping returns (lines 274-305), and ping_server with it (lines
\* 132-138)
LegacyPing(reply) ==
  /\ pp_pc = "legacy"
  /\ pp_conns' = Append(pp_conns, [slot |-> pp_idx, version |-> legacy,
                                   reply |-> reply])
  /\ pp_result' = IF reply = "reply" THEN PingResult(legacy, {legacy}, TRUE)
                  ELSE PingNone
  /\ pp_pc' = "returned"
  /\ UNCHANGED <<config, pp_idx, pp_attempt>>
  /\ UNCHANGED offProtoVars

NextProto ==
  \/ PingServerCall
  \/ \E reply \in ModernReplies : ModernPing(reply)
  \/ \E reply \in LegacyReplies : LegacyPing(reply)

SpecProto == InitProto /\ [][NextProto]_vars

(***************************************************************************)
(* SpecVarInt: the length loop of _read_packet (core/protocol.py, lines    *)
(* 223-240) on the bytes _encode_varint produced, and on length prefixes   *)
(* of a peer's making.                                                     *)
(***************************************************************************)
\* 2^31 - 1, the largest integer a length prefix is encoded from
MaxVarInt == Pow2(30) - 1 + Pow2(30)

\* the integers encoded: around every power of two, and a few between
VarIntSamples ==
  {0, 300, 770, 25565, MaxVarInt}
    \cup {Pow2(k) : k \in 0..30} \cup {Pow2(k) - 1 : k \in 1..30}

\* length prefixes a peer may send: five bytes with the continuation bit,
\* alone or followed by a sixth byte.  The low seven bits of a sixth byte
\* are left zero: shifted by 35 they fall outside the integers of the model.
ContinuationBytes == {128, 129}
SixthBytes == {0, 128}
PeerPrefixes ==
  [1..5 -> ContinuationBytes]
    \cup {p \o <<b>> : p \in [1..5 -> ContinuationBytes], b \in SixthBytes}

offVarIntVars == <<oldVars, protoVars, parseVars, discVars, lastVars>>

InitVarInt ==
  /\ \/ /\ vi_n \in VarIntSamples
        /\ vi_stream = _encode_varint(vi_n)
     \/ /\ vi_n = -1
        /\ vi_stream \in PeerPrefixes
  /\ vi_pos = 0
  /\ vi_length = 0
  /\ vi_shift = 0
  /\ vi_pc = "reading"
  /\ ScanConstructed
  /\ WireUnused
  /\ OneUnused
  /\ DbUnused
  /\ RateUnused
  /\ ProtoUnused
  /\ ParseUnused
  /\ DiscUnused
  /\ LastUnused

\* one pass of the while loop (lines 232-240): a byte arrives
ReadLengthByte ==
  /\ vi_pc = "reading"
  /\ vi_pos < Len(vi_stream)
  /\ LET st == VarIntStep(vi_length, vi_shift, vi_stream[vi_pos + 1])
     IN  /\ vi_length' = st.length
         /\ vi_shift' = st.shift
         /\ vi_pc' = IF ~st.more THEN "length"              \* break
                     ELSE IF st.overflow THEN "ProtocolError"
                     ELSE "reading"
  /\ vi_pos' = vi_pos + 1
  /\ UNCHANGED <<vi_n, vi_stream>>
  /\ UNCHANGED offVarIntVars

\* reader.read(1) returns b'' (lines 233-234): the peer closed
ReadLengthEof ==
  /\ vi_pc = "reading"
  /\ vi_pos = Len(vi_stream)
  /\ vi_pc' = "eof"
  /\ UNCHANGED <<vi_n, vi_stream, vi_pos, vi_length, vi_shift>>
  /\ UNCHANGED offVarIntVars

NextVarInt == ReadLengthByte \/ ReadLengthEof

SpecVarInt == InitVarInt /\ [][NextVarInt]_vars

(***************************************************************************)
(* parsers/server_parser.py.  Strings are strings; a JSON value is a       *)
(* record tagged with its Python type, a dict holding a function from its  *)
(* keys to values.                                                         *)
(***************************************************************************)
JStr(s) == [t |-> "str", s |-> s]
JInt(n) == [t |-> "int", n |-> n]
JBool(b) == [t |-> "bool", b |-> b]
JList(items) == [t |-> "list", items |-> items]
JDict(d) == [t |-> "dict", d |-> d]
JNull == [t |-> "NoneType"]

\* bool(v)
Truthy(v) ==
  CASE v.t = "str" -> v.s # ""
    [] v.t = "int" -> v.n # 0
    [] v.t = "bool" -> v.b
    [] v.t = "list" -> v.items # <<>>
    [] v.t = "dict" -> DOMAIN v.d # {}
    [] OTHER -> FALSE

\* obj.get(key, default)
Get(obj, key, default) == IF key \in DOMAIN obj.d THEN obj.d[key] ELSE default

Char(s, i) == SubSeq(s, i, i)

From(s, i) == SubSeq(s, i, Len(s))

\* kw in s
Contains(s, kw) ==
  \E i \in 1..(Len(s) - Len(kw) + 1) : SubSeq(s, i, i + Len(kw) - 1) = kw

StartsWith(s, prefix) ==
  Len(s) >= Len(prefix) /\ SubSeq(s, 1, Len(prefix)) = prefix

UpperCase == "ABCDEFGHIJKLMNOPQRSTUVWXYZ"
LowerCase == "abcdefghijklmnopqrstuvwxyz"
Digits == "0123456789"

\* str.lower(), on the ASCII letters
RECURSIVE Lower(_)
Lower(s) ==
  IF s = "" THEN ""
  ELSE LET c == Char(s, 1)
           up == {i \in 1..Len(UpperCase) : Char(UpperCase, i) = c}
       IN  (IF up = {} THEN c ELSE Char(LowerCase, CHOOSE i \in up : TRUE))
             \o Lower(From(s, 2))

\* str(n) for the integers 0..99
Str(n) ==
  IF n < 10 THEN Char(Digits, n + 1)
  ELSE Char(Digits, (n \div 10) + 1) \o Char(Digits, (n % 10) + 1)

\* MOTDParser.COLOR_CODES (lines 64-71)
COLOR_CODES ==
  [black |-> "0", dark_blue |-> "1", dark_green |-> "2", dark_aqua |-> "3",
   dark_red |-> "4", dark_purple |-> "5", purple |-> "5", gold |-> "6",
   gray |-> "7", grey |-> "7", dark_gray |-> "8", dark_grey |-> "8",
   blue |-> "9", green |-> "a", aqua |-> "b", red |-> "c",
   light_purple |-> "d", pink |-> "d", yellow |-> "e", white |-> "f",
   reset |-> "r"]

\* MOTDParser.FORMATTING_CODES (lines 73-76), in the order of the dict
FORMATTING_CODES ==
  <<[name |-> "bold", code |-> "l"], [name |-> "italic", code |-> "o"],
    [name |-> "underlined", code |-> "n"],
    [name |-> "strikethrough", code |-> "m"],
    [name |-> "obfuscated", code |-> "k"]>>

\* the characters of the class [0-9a-fk-or]
CodeChars == "0123456789abcdefklmnor"

\* re.sub(mark + r'[0-9a-fk-or]', '', text): one pass, left to right, over
\* matches that do not overlap
RECURSIVE StripCodes(_, _)
StripCodes(text, mark) ==
  IF text = "" THEN ""
  ELSE IF /\ Len(text) >= 2
          /\ Char(text, 1) = mark
          /\ Contains(CodeChars, Char(text, 2))
         THEN StripCodes(From(text, 3), mark)
         ELSE Char(text, 1) \o StripCodes(From(text, 2), mark)

ColorTokenOpen == "{\"color\":\""

\* the end of a match of "[^"]*"\}" at the start of text, 0 if there is none
ColorTokenEnd(text) ==
  LET quotes == {i \in 1..Len(text) : Char(text, i) = "\""}
  IN  IF quotes = {} THEN 0
      ELSE LET q == CHOOSE i \in quotes : \A j \in quotes : i <= j
           IN  IF q < Len(text) /\ Char(text, q + 1) = "}" THEN q + 1 ELSE 0

\* re.sub(r'\{"color":"[^"]*"\}', '', text)
RECURSIVE StripColorTokens(_)
StripColorTokens(text) ==
  IF text = "" THEN ""
  ELSE LET end == IF StartsWith(text, ColorTokenOpen)
                    THEN ColorTokenEnd(From(text, Len(ColorTokenOpen) + 1))
                    ELSE 0
       IN  IF end > 0
             THEN StripColorTokens(From(text, Len(ColorTokenOpen) + end + 1))
             ELSE Char(text, 1) \o StripColorTokens(From(text, 2))

WhiteSpace == {" ", "\t", "\n", "\r"}

\* ' '.join(text.split()): sep is the blank owed before the next word
RECURSIVE JoinSplit(_, _)
JoinSplit(text, sep) ==
  IF text = "" THEN ""
  ELSE IF Char(text, 1) \in WhiteSpace
         THEN JoinSplit(From(text, 2), IF sep = "start" THEN sep ELSE "owed")
         ELSE (IF sep = "owed" THEN " " ELSE "")
                \o Char(text, 1) \o JoinSplit(From(text, 2), "word")

\* MOTDParser._clean_formatting (lines 174-189)
_clean_formatting(text) ==
  JoinSplit(StripColorTokens(StripCodes(StripCodes(text, "§"), "&")), "start")

\* str(v) for the values the model hands to it
PyStr(v) ==
  CASE v.t = "str" -> v.s
    [] v.t = "int" -> Str(v.n)
    [] v.t = "bool" -> IF v.b THEN "True" ELSE "False"
    [] OTHER -> "None"

HexDigits == "0123456789abcdef"

\* int(s, 16) for s of hexadecimal digits; -1 stands for ValueError
RECURSIVE HexInt(_, _)
HexInt(s, acc) ==
  IF s = "" THEN acc
  ELSE LET at == {i \in 1..16 : Char(HexDigits, i) = Lower(Char(s, 1))}
       IN  IF at = {} THEN -1
           ELSE HexInt(From(s, 2), acc * 16 + (CHOOSE i \in at : TRUE) - 1)

RECURSIVE LStrip(_, _)
LStrip(s, c) == IF s # "" /\ Char(s, 1) = c THEN LStrip(From(s, 2), c) ELSE s

\* MOTDParser._hex_to_legacy_color (lines 147-172)
_hex_to_legacy_color(hex_color) ==
  LET hex == LStrip(hex_color, "#")
      part(a, b) == LET s == SubSeq(hex, a, Min(b, Len(hex)))
                    IN  IF s = "" THEN -1 ELSE HexInt(s, 0)
      r == part(1, 2)
      g == part(3, 4)
      b == part(5, 6)
  IN  IF r < 0 \/ g < 0 \/ b < 0 THEN "§r"      \* except (ValueError, ...)
      ELSE IF r > 200 /\ g > 200 /\ b > 200 THEN "§f"
      ELSE IF r < 50 /\ g < 50 /\ b < 50 THEN "§0"
      ELSE IF r > g /\ r > b THEN (IF r > 150 THEN "§c" ELSE "§4")
      ELSE IF g > r /\ g > b THEN (IF g > 150 THEN "§a" ELSE "§2")
      ELSE IF b > r /\ b > g THEN (IF b > 150 THEN "§9" ELSE "§1")
      ELSE "§7"

\* what a call gives: a string, or an exception
Text(s) == [raised |-> FALSE, s |-> s]
Raises == [raised |-> TRUE, s |-> ""]

\* the formatting flags of a dict (lines 119-121)
RECURSIVE FormatFlags(_, _)
FormatFlags(obj, i) ==
  IF i > Len(FORMATTING_CODES) THEN ""
  ELSE (IF Truthy(Get(obj, FORMATTING_CODES[i].name, JNull))
          THEN "§" \o FORMATTING_CODES[i].code ELSE "")
         \o FormatFlags(obj, i + 1)

\* the colour of a dict (lines 124-130): `color in cls.COLOR_CODES' raises
\* TypeError for a list or a dict, color.startswith raises AttributeError
\* for any other value that is not a string
ColorOf(obj) ==
  IF "color" \notin DOMAIN obj.d THEN Text("")
  ELSE LET color == obj.d["color"]
       IN  IF color.t # "str" THEN Raises
           ELSE IF color.s \in DOMAIN COLOR_CODES
             THEN Text("§" \o COLOR_CODES[color.s])
           ELSE IF StartsWith(color.s, "#") /\ Len(color.s) = 7
             THEN Text(_hex_to_legacy_color(color.s))
           ELSE Text("")

\* MOTDParser._build_formatted_text (lines 105-143)
RECURSIVE _build_formatted_text(_, _)
RECURSIVE JoinItems(_, _)
JoinItems(items, depth) ==
  IF items = <<>> THEN Text("")
  ELSE LET head == _build_formatted_text(Head(items), depth)
           tail == JoinItems(Tail(items), depth)
       IN  IF head.raised \/ tail.raised THEN Raises
           ELSE Text(head.s \o tail.s)

_build_formatted_text(obj, depth) ==
  IF depth > 10 THEN Text("")
  ELSE IF obj.t = "str" THEN Text(obj.s)
  ELSE IF obj.t = "list" THEN JoinItems(obj.items, depth + 1)
  ELSE IF obj.t = "dict"
    THEN LET color == ColorOf(obj)
             text == IF "text" \in DOMAIN obj.d THEN PyStr(obj.d["text"])
                     ELSE ""
             sub(key) == IF key \in DOMAIN obj.d /\ obj.d[key].t = "list"
                           THEN _build_formatted_text(obj.d[key], depth + 1)
                           ELSE Text("")
             extra == sub("extra")
             with == sub("with")
         IN  IF color.raised \/ extra.raised \/ with.raised THEN Raises
             ELSE Text(FormatFlags(obj, 1) \o color.s \o text \o extra.s
                         \o with.s)
  ELSE Text(PyStr(obj))

\* MOTDParser.parse_motd (lines 78-103): the second value of the pair, the
\* one parse_response stores as motd_formatted
parse_motd(description) ==
  IF ~Truthy(description) THEN JNull
  ELSE IF description.t = "str" THEN JStr(_clean_formatting(description.s))
  ELSE IF description.t \in {"dict", "list"}
    THEN LET formatted ==
               IF description.t = "dict"
                 THEN _build_formatted_text(description, 0)
                 ELSE _build_formatted_text(
                        JDict([extra |-> description]), 0)
         IN  IF formatted.raised THEN JNull       \* except Exception
             ELSE JStr(formatted.s)
  ELSE JStr(_clean_formatting(PyStr(description)))

\* digits at the head of s
RECURSIVE DigitRun(_)
DigitRun(s) ==
  IF s # "" /\ Contains(Digits, Char(s, 1)) THEN 1 + DigitRun(From(s, 2))
  ELSE 0

\* s is 1\.\d+(\.\d+)? from end to end
VersionNumberExact(s) ==
  /\ StartsWith(s, "1.")
  /\ LET minor == DigitRun(From(s, 3))
         rest == From(s, 3 + minor)
     IN  /\ minor >= 1
         /\ \/ rest = ""
            \/ /\ StartsWith(rest, ".")
               /\ DigitRun(From(rest, 2)) >= 1
               /\ DigitRun(From(rest, 2)) = Len(rest) - 1

\* re.match(r'^1\.\d+(\.\d+)?$', s): $ also matches before a last newline
VersionNumber(s) ==
  \/ VersionNumberExact(s)
  \/ /\ s # ""
     /\ Char(s, Len(s)) = "\n"
     /\ VersionNumberExact(SubSeq(s, 1, Len(s) - 1))

\* any(indicator in text for indicator in indicators)
AnyIn(indicators, text) == \E kw \in indicators : Contains(text, kw)

\* ServerResponseParser._detect_server_type (lines 255-333).  version_name
\* is a JSON value; a value that is neither empty nor a string has no
\* lower(), and the exception gives unknown (lines 331-333).
_detect_server_type(response_data, version_name) ==
  IF \/ Truthy(Get(response_data, "isModded", JNull))
     \/ Truthy(Get(response_data, "modded", JNull))
    THEN "neoforge"
  ELSE IF \/ "forgeData" \in DOMAIN response_data.d
          \/ "modinfo" \in DOMAIN response_data.d
    THEN "forge"
  ELSE IF Truthy(version_name) /\ version_name.t # "str" THEN "unknown"
  ELSE
    LET version_lower == IF Truthy(version_name) THEN Lower(version_name.s)
                         ELSE ""
        has(kw) == Contains(version_lower, kw)
        formatted == IF "description" \in DOMAIN response_data.d
                       THEN parse_motd(response_data.d["description"])
                       ELSE JNull
        motd_text == IF formatted.t = "str" THEN Lower(formatted.s) ELSE ""
    IN  IF has("paper")
          THEN IF has("purpur") THEN "purpur"
               ELSE IF has("folia") THEN "folia"
               ELSE IF has("pufferfish") THEN "pufferfish"
               ELSE "paper"
        ELSE IF has("spigot") THEN "spigot"
        ELSE IF has("bukkit") \/ has("craftbukkit") THEN "bukkit"
        ELSE IF has("forge") \/ has("fml")
          THEN IF has("neoforge") THEN "neoforge" ELSE "forge"
        ELSE IF has("fabric") THEN "fabric"
        ELSE IF has("quilt") THEN "quilt"
        ELSE IF has("velocity") THEN "velocity"
        ELSE IF has("bungeecord") THEN "bungeecord"
        ELSE IF has("waterfall") THEN "waterfall"
        ELSE IF AnyIn({"paper", "purpur", "folia"}, motd_text) THEN "paper"
        ELSE IF AnyIn({"spigot", "bukkit"}, motd_text) THEN "spigot"
        ELSE IF AnyIn({"forge", "modded", "mods"}, motd_text) THEN "forge"
        ELSE IF AnyIn({"fabric", "quilt"}, motd_text) THEN "fabric"
        ELSE IF has("minecraft server") \/ has("vanilla") THEN "vanilla"
        ELSE IF VersionNumber(IF Truthy(version_name) THEN version_name.s
                              ELSE "")
          THEN "vanilla"
        ELSE "unknown"

\* s.replace(c, '')
RECURSIVE Without(_, _)
Without(s, c) ==
  IF s = "" THEN ""
  ELSE (IF Char(s, 1) = c THEN "" ELSE Char(s, 1)) \o Without(From(s, 2), c)

\* the players of the sample that are kept (lines 223-229)
Sampled(sample) ==
  SelectSeq(sample.items,
            LAMBDA player : /\ player.t = "dict"
                            /\ "id" \in DOMAIN player.d
                            /\ "name" \in DOMAIN player.d)

\* ParsedServer() (lines 36-52), the fields parse_response decides by type
ParsedServer ==
  [version_name |-> JStr("Unknown"), server_type |-> "unknown",
   motd_formatted |-> JNull, player_sample |-> <<>>, favicon |-> JNull,
   favicon_hash |-> JNull]

ParsingError == [raised |-> TRUE]

\* ServerResponseParser.parse_response (lines 197-253).  _extract_mods and
\* _determine_online_mode catch what they raise and are left out, with the
\* fields they fill.
parse_response(response_data) ==
  LET version_info == Get(response_data, "version", JDict(<<>>))
      version_name == IF version_info.t = "dict"
                        THEN Get(version_info, "name", JStr("Unknown"))
                        ELSE ParsedServer.version_name
      players_info == Get(response_data, "players", JDict(<<>>))
      sample == IF players_info.t = "dict"
                  THEN Get(players_info, "sample", JList(<<>>))
                  ELSE JList(<<>>)
      kept == IF sample.t = "list" THEN Sampled(sample) ELSE <<>>
      favicon == Get(response_data, "favicon", JNull)
  IN  IF \E i \in 1..Len(kept) : kept[i].d["id"].t # "str"
        THEN ParsingError               \* player['id'].replace
      ELSE IF Truthy(favicon) /\ favicon.t # "str"
        THEN ParsingError               \* favicon.encode()
      ELSE [raised |-> FALSE,
            version_name |-> version_name,
            server_type |-> _detect_server_type(response_data, version_name),
            motd_formatted |->
              parse_motd(Get(response_data, "description", JNull)),
            player_sample |->
              [i \in 1..Len(kept) |->
                 [uuid |-> Without(kept[i].d["id"].s, "-"),
                  name |-> kept[i].d["name"]]],
            favicon |-> IF Truthy(favicon) THEN favicon
                        ELSE ParsedServer.favicon,
            favicon_hash |-> IF Truthy(favicon) THEN JStr("md5 of favicon")
                             ELSE ParsedServer.favicon_hash]

(***************************************************************************)
(* SpecParse: parse_response on the documents a server may send.           *)
(***************************************************************************)
Absent == [t |-> "absent"]

\* a dict from the keys whose value is not Absent
Entry(key, v) == IF v = Absent THEN <<>> ELSE key :> v

VersionNames ==
  {"1.20.4", "Paper 1.20.4", "Purpur 1.20.4", "Folia 1.20", "Spigot 1.8.8",
   "CraftBukkit 1.8", "Forge 1.12.2", "NeoForge 1.21", "Fabric 1.20",
   "Velocity 3.3.0", "Vanilla", "Custom"}

Versions ==
  {Absent, JInt(5), JDict([name |-> JInt(7)])}
    \cup {JDict([name |-> JStr(n)]) : n \in VersionNames}

PaperServer ==
  JDict([text |-> JStr(""),
         extra |-> JList(<<JDict([text |-> JStr("Paper server"),
                                  color |-> JStr("gold")])>>)])

Descriptions ==
  {Absent, JInt(7),
   JStr("A Minecraft Server"), JStr("§aHello  &lWorld "), JStr("§§aa"),
   JStr("Running Purpur"), JStr("a{\"color\":\"red\"}b"),
   PaperServer,
   JDict([text |-> JStr("Hi"), bold |-> JBool(TRUE)]),
   JDict([text |-> JStr("Hi"), color |-> JInt(5)]),
   JList(<<JStr("modded "),
           JDict([text |-> JInt(5), color |-> JStr("#ff5555")])>>)}

Players ==
  {Absent, JInt(3),
   JDict([sample |->
            JList(<<JDict([id |-> JStr("ab-cd"), name |-> JStr("Steve")]),
                    JInt(1)>>)]),
   JDict([sample |->
            JList(<<JDict([id |-> JInt(1), name |-> JStr("Steve")])>>)])}

Favicons == {Absent, JStr("data:image/png;base64,AAAA"), JInt(1)}

Documents ==
  {JDict(Entry("version", version) @@ Entry("description", description)
           @@ Entry("players", players) @@ Entry("favicon", favicon)
           @@ Entry("isModded", isModded) @@ Entry("forgeData", forgeData)) :
     version \in Versions, description \in Descriptions,
     players \in Players, favicon \in Favicons,
     isModded \in {Absent, JBool(TRUE)}, forgeData \in {Absent, JDict(<<>>)}}

offParseVars == <<oldVars, protoVars, varintVars, discVars, lastVars>>

InitParse ==
  /\ ps_document \in Documents
  /\ parsed = JNull
  /\ ps_pc = "called"
  /\ ScanConstructed
  /\ WireUnused
  /\ OneUnused
  /\ DbUnused
  /\ RateUnused
  /\ ProtoUnused
  /\ VarIntUnused
  /\ DiscUnused
  /\ LastUnused

\* parse_response returns, or raises ParsingError (lines 251-253)
ParseResponseCall ==
  /\ ps_pc = "called"
  /\ parsed' = parse_response(ps_document)
  /\ ps_pc' = IF parsed'.raised THEN "ParsingError" ELSE "returned"
  /\ UNCHANGED ps_document
  /\ UNCHANGED offParseVars

NextParse == ParseResponseCall

SpecParse == InitParse /\ [][NextParse]_vars

(***************************************************************************)
(* SpecDiscovery: RangeGenerator.generate and FileGenerator.generate       *)
(* (modules/discovery.py), from one yield to the next.                     *)
(***************************************************************************)
MaxHostBits == 3   \* networks from /32 down to /(32 - MaxHostBits)
MaxBatch == 3      \* discovery.batch_size is 0..MaxBatch
MaxLines == 2      \* lines of a target file

\* str(ip) for the address 10.0.0.x
IpStr(x) == "10.0.0." \o Str(x)

PortLists == {<<25565>>, <<25565, 25566>>}

\* DiscoveryConfig; batch_size is not validated and may be 0
DiscoveryConfigs == [ports : PortLists, batch_size : 0..MaxBatch]

\* ip_range: an address 10.0.0.x and a prefix length; a prefix length of 33
\* makes ipaddress.ip_network raise ValueError
Ranges ==
  [kind : {"range"}, address : 0..(Pow2(MaxHostBits) - 1),
   prefixlen : (32 - MaxHostBits)..33]

\* ipaddress.ip_network(ip_range, strict=False).hosts(), last octets in
\* order: all addresses but the first and the last, both addresses of a
\* /31, the address of a /32
hosts(ip_range) ==
  LET size == Pow2(32 - ip_range.prefixlen)
      network_address == ip_range.address - (ip_range.address % size)
  IN  IF size >= 4
        THEN [i \in 1..(size - 2) |-> network_address + i]
        ELSE [i \in 1..size |-> network_address + i - 1]

\* lines of a target file
Lines ==
  {"10.0.0.1", "10.0.0.1:25565", " 10.0.0.3 : 25566 ", "# 10.0.0.9", "",
   "10.0.0.300", "example.com", "example.com:25565", "10.0.0.1:70000",
   "10.0.0.2:-1", "10.0.0.1:abc", "::1"}

Files ==
  [kind : {"file"},
   lines : UNION {[1..n -> Lines] : n \in 1..MaxLines}]

\* s.strip()
RECURSIVE Strip(_)
Strip(s) ==
  IF s = "" THEN ""
  ELSE IF Char(s, 1) \in WhiteSpace THEN Strip(From(s, 2))
  ELSE IF Char(s, Len(s)) \in WhiteSpace THEN Strip(SubSeq(s, 1, Len(s) - 1))
  ELSE s

\* s.find(c) + 1
IndexOf(s, c) ==
  LET at == {i \in 1..Len(s) : Char(s, i) = c}
  IN  IF at = {} THEN 0 ELSE CHOOSE i \in at : \A j \in at : i <= j

\* the number a string of digits writes
RECURSIVE Decimal(_, _)
Decimal(s, acc) ==
  IF s = "" THEN acc
  ELSE Decimal(From(s, 2), acc * 10 + IndexOf(Digits, Char(s, 1)) - 1)

AllDigits(s) == s # "" /\ \A i \in 1..Len(s) : Contains(Digits, Char(s, i))

\* int(s): an optional sign and digits; anything else is ValueError
PyInt(s) ==
  LET t == Strip(s)
      signed == t # "" /\ Char(t, 1) \in {"+", "-"}
      digits == IF signed THEN From(t, 2) ELSE t
  IN  IF AllDigits(digits)
        THEN [ok |-> TRUE,
              n |-> IF signed /\ Char(t, 1) = "-" THEN 0 - Decimal(digits, 0)
                    ELSE Decimal(digits, 0)]
        ELSE [ok |-> FALSE, n |-> 0]

\* s.split(sep)
RECURSIVE Split(_, _)
Split(s, sep) ==
  LET i == IndexOf(s, sep)
  IN  IF i = 0 THEN <<s>>
      ELSE <<SubSeq(s, 1, i - 1)>> \o Split(From(s, i + 1), sep)

\* ipaddress.ip_address(ip) returns for a string without ':' : four
\* decimal octets of one to three digits, none above 255, none with a
\* leading zero
ip_address_ok(ip) ==
  LET octets == Split(ip, ".")
  IN  /\ Len(octets) = 4
      /\ \A i \in 1..4 :
           /\ AllDigits(octets[i])
           /\ Len(octets[i]) <= 3
           /\ Decimal(octets[i], 0) <= 255
           /\ (Len(octets[i]) > 1 => Char(octets[i], 1) # "0")

\* the targets one line of the file yields (lines 116-133)
file_line(text, ports) ==
  LET line == Strip(text)
  IN  IF line = "" \/ StartsWith(line, "#") THEN <<>>
      ELSE IF Contains(line, ":")
        THEN LET at == IndexOf(line, ":")
                 ip == SubSeq(line, 1, at - 1)
                 port == PyInt(From(line, at + 1))
             IN  IF port.ok THEN <<<<Strip(ip), port.n>>>>
                 ELSE <<>>                          \* except ValueError
        ELSE IF ip_address_ok(line)
          THEN [i \in 1..Len(ports) |-> <<line, ports[i]>>]
          ELSE <<>>                                 \* except ValueError

offDiscVars == <<oldVars, protoVars, varintVars, parseVars, lastVars>>

InitDiscovery ==
  /\ d_config \in DiscoveryConfigs
  /\ d_input \in Ranges \cup Files
  /\ d_pos = 0
  /\ d_port = 0
  /\ d_batch = <<>>
  /\ d_out = <<>>
  /\ d_pc = "loop"
  /\ ScanConstructed
  /\ WireUnused
  /\ OneUnused
  /\ DbUnused
  /\ RateUnused
  /\ ProtoUnused
  /\ VarIntUnused
  /\ ParseUnused
  /\ LastUnused

\* mutant of after_loop: the targets left in batch are not yielded
after_loop_returns == "done"

\* where RangeGenerator goes when its for loops end (line 46)
after_loop == "tail"

\* ip_network raises ValueError (lines 33, 50-52)
RangeInvalid ==
  /\ d_input.kind = "range"
  /\ d_pc = "loop"
  /\ d_input.prefixlen > 32
  /\ d_pc' = "DiscoveryError"
  /\ UNCHANGED <<d_config, d_input, d_pos, d_port, d_batch, d_out>>
  /\ UNCHANGED offDiscVars

\* one pass of the inner for loop (lines 36-39), or its end
RangeAppend ==
  /\ d_input.kind = "range"
  /\ d_pc = "loop"
  /\ d_input.prefixlen <= 32
  /\ IF d_pos < Len(hosts(d_input))
       THEN LET ip == hosts(d_input)[d_pos + 1]
                port == d_config.ports[d_port + 1]
                batch == Append(d_batch, <<IpStr(ip), port>>)
                last == d_port + 1 = Len(d_config.ports)
            IN  /\ d_batch' = batch
                /\ d_port' = IF last THEN 0 ELSE d_port + 1
                /\ d_pos' = IF last THEN d_pos + 1 ELSE d_pos
                /\ d_pc' = IF Len(batch) >= d_config.batch_size THEN "flush"
                           ELSE "loop"
       ELSE /\ d_pc' = after_loop
            /\ UNCHANGED <<d_pos, d_port, d_batch>>
  /\ UNCHANGED <<d_config, d_input, d_out>>
  /\ UNCHANGED offDiscVars

\* yield target, from the full batch (lines 41-44) or from what is left
\* when the loops have ended (lines 47-48)
RangeYield ==
  /\ d_input.kind = "range"
  /\ d_pc \in {"flush", "tail"}
  /\ IF d_batch # <<>>
       THEN /\ d_out' = Append(d_out, Head(d_batch))
            /\ d_batch' = Tail(d_batch)
            /\ UNCHANGED d_pc
       ELSE /\ d_pc' = IF d_pc = "flush" THEN "loop" ELSE "done"
            /\ UNCHANGED <<d_out, d_batch>>
  /\ UNCHANGED <<d_config, d_input, d_pos, d_port>>
  /\ UNCHANGED offDiscVars

\* FileGenerator.generate takes one line of the file (lines 115-133), or
\* reaches its end
FileLine ==
  /\ d_input.kind = "file"
  /\ d_pc = "loop"
  /\ IF d_pos < Len(d_input.lines)
       THEN /\ d_out' = d_out \o file_line(d_input.lines[d_pos + 1],
                                           d_config.ports)
            /\ d_pos' = d_pos + 1
            /\ UNCHANGED d_pc
       ELSE /\ d_pc' = "done"
            /\ UNCHANGED <<d_out, d_pos>>
  /\ UNCHANGED <<d_config, d_input, d_port, d_batch>>
  /\ UNCHANGED offDiscVars

NextDiscovery == RangeInvalid \/ RangeAppend \/ RangeYield \/ FileLine

SpecDiscovery == InitDiscovery /\ [][NextDiscovery]_vars

(***************************************************************************)
(* SpecMem: MemoryManager.check_usage (utils/memory.py) as the scan loop   *)
(* calls it, once per target (core/scanner.py, lines 188-198).  Memory     *)
(* usage is in percent of max_memory.                                      *)
(***************************************************************************)
MaxGcInterval == 2   \* memory.gc_interval is 0..MaxGcInterval
MaxChecks == 4       \* targets the loop takes

warning_threshold == 80
critical_threshold == 95

\* MemoryConfig values; validation looks at max_memory_mb only
MemoryConfigs == [gc_interval : 0..MaxGcInterval, enable_monitoring : BOOLEAN]

\* what process.memory_info().rss may be, in percent of max_memory
UsageSamples == {0, 79, 80, 94, 95, 100, 120}

InitMem ==
  /\ mm_config \in MemoryConfigs
  /\ monitoring_available \in BOOLEAN
  /\ scan_count = 0
  /\ gc_count = 0
  /\ mm_pc = "check"
  /\ mm_returned = TRUE
  /\ mm_cleanup = "none"
  /\ mm_usage = -1
  /\ mm_unheeded = FALSE
  /\ ScanConstructed
  /\ WireUnused
  /\ RestUnusedButLast
  /\ MemOthersUnused

\* MemoryManager._cleanup_if_needed (lines 55-73) at usage_ratio
_cleanup_if_needed(usage_ratio) ==
  IF usage_ratio >= critical_threshold
    THEN [cleanup |-> "force", returns |-> FALSE]
  ELSE IF usage_ratio >= warning_threshold
    THEN [cleanup |-> "gentle", returns |-> TRUE]
  ELSE [cleanup |-> "none", returns |-> TRUE]

\* await self.memory_manager.check_usage() (scanner.py line 189; memory.py
\* lines 42-53).  scan_count % gc_interval is outside every try: with
\* gc_interval = 0 it raises ZeroDivisionError into scan_range, whose except
\* turns it into ScannerError (scanner.py lines 224-226).
CheckUsage(usage) ==
  /\ mm_pc = "check"
  /\ scan_count < MaxChecks
  /\ IF ~mm_config.enable_monitoring \/ ~monitoring_available
       THEN /\ mm_returned' = TRUE
            /\ mm_pc' = "acquire"
            /\ mm_cleanup' = "none"
            /\ mm_usage' = -1
            /\ UNCHANGED <<scan_count, gc_count>>
       ELSE /\ scan_count' = scan_count + 1
            /\ IF mm_config.gc_interval = 0
                 THEN /\ mm_pc' = "ScannerError"
                      /\ mm_cleanup' = "none"
                      /\ mm_usage' = -1
                      /\ UNCHANGED <<mm_returned, gc_count>>
                 ELSE IF scan_count' % mm_config.gc_interval = 0
                   THEN LET did == _cleanup_if_needed(usage)
                        IN  /\ mm_returned' = did.returns
                            /\ mm_cleanup' = did.cleanup
                            /\ gc_count' = IF did.cleanup = "none"
                                             THEN gc_count ELSE gc_count + 1
                            /\ mm_usage' = usage
                            /\ mm_pc' = "acquire"
                   ELSE /\ mm_returned' = TRUE
                        /\ mm_pc' = "acquire"
                        /\ mm_cleanup' = "none"
                        /\ mm_usage' = -1
                        /\ UNCHANGED gc_count
  /\ UNCHANGED <<mm_config, monitoring_available, mm_unheeded>>
  /\ UNCHANGED offMemVars

\* the value check_usage returned is dropped (line 189): the loop goes on to
\* rate_limiter.acquire() and create_task (lines 192-198) whatever it was
LaunchAfterCheck ==
  /\ mm_pc = "acquire"
  /\ mm_pc' = "check"
  /\ mm_unheeded' = (mm_unheeded \/ ~mm_returned)
  /\ UNCHANGED <<mm_config, monitoring_available, scan_count, gc_count,
                 mm_returned, mm_cleanup, mm_usage>>
  /\ UNCHANGED offMemVars

NextMem == (\E usage \in UsageSamples : CheckUsage(usage)) \/ LaunchAfterCheck

SpecMem == InitMem /\ [][NextMem]_vars

(***************************************************************************)
(* SpecLife: one MinecraftScanner from construction to the end of          *)
(* scan_range (core/scanner.py, lines 139-228 and 335-359): add_module,    *)
(* initialize(), the scan task a front end creates (ui/console.py line     *)
(* 389), stop(), the scan loop, asyncio.gather, _finalize_scan and the     *)
(* completion notice.  A probe is a task that waits for the semaphore,     *)
(* runs and is done; what it does while running is SpecProbe's subject.    *)
(***************************************************************************)
MaxModules == 2     \* modules a caller registers
MaxInitCalls == 2   \* initialize() calls a caller makes itself
LifeTargets == 5    \* targets the generator holds

\* what initialize() awaits first, in this order (lines 144-146)
Components == <<"db", "blacklist", "geolocation">>

LifeModules == 1..MaxModules

InitLife ==
  /\ lf_webhook \in BOOLEAN
  /\ lf_modules = 0
  /\ lf_comp_inits = [c \in 1..Len(Components) |-> 0]
  /\ lf_mod_inits = [m \in LifeModules |-> 0]
  /\ lf_initialized = FALSE
  /\ lf_init_by = "none"
  /\ lf_init_pos = 0
  /\ lf_calls = 0
  /\ lf_failed = FALSE
  /\ lf_at_init = -1
  /\ lf_pc = "setup"
  /\ lf_running = FALSE
  /\ lf_early_stop = FALSE
  /\ lf_taken = 0
  /\ lf_probe = [t \in 1..LifeTargets |-> "none"]
  /\ lf_tasks = {}
  /\ lf_finals = [m \in LifeModules |-> 0]
  /\ lf_fin_pos = 0
  /\ lf_fin_raised = FALSE
  /\ lf_complete = 0
  /\ lf_exit = "none"
  /\ ScanConstructed
  /\ WireUnused
  /\ RestUnusedButLast
  /\ LifeOthersUnused

\* add_module (lines 155-157)
AddModule ==
  /\ lf_pc = "setup"
  /\ lf_init_by = "none"
  /\ lf_modules < MaxModules
  /\ lf_modules' = lf_modules + 1
  /\ UNCHANGED <<lf_webhook, lf_comp_inits, lf_mod_inits, lf_initialized,
                 lf_init_by, lf_init_pos, lf_calls, lf_failed, lf_pc,
                 lf_running, lf_early_stop, lf_taken, lf_probe, lf_tasks,
                 lf_finals, lf_fin_pos, lf_complete, lf_exit, lf_fin_raised,
                 lf_at_init>>
  /\ UNCHANGED offLifeVars

\* if self._initialized: return (lines 141-142)
already_initialized_never == FALSE

already_initialized == lf_initialized

\* the caller awaits scanner.initialize() itself (test_scanner.py line 23)
InitializeCall ==
  /\ lf_pc = "setup"
  /\ lf_init_by = "none"
  /\ lf_calls < MaxInitCalls
  /\ lf_calls' = lf_calls + 1
  /\ IF already_initialized
       THEN UNCHANGED <<lf_init_by, lf_init_pos>>
       ELSE /\ lf_init_by' = "caller"
            /\ lf_init_pos' = 1
  /\ UNCHANGED <<lf_webhook, lf_modules, lf_comp_inits, lf_mod_inits,
                 lf_initialized, lf_failed, lf_pc, lf_running, lf_early_stop,
                 lf_taken, lf_probe, lf_tasks, lf_finals, lf_fin_pos,
                 lf_complete, lf_exit, lf_fin_raised, lf_at_init>>
  /\ UNCHANGED offLifeVars

\* the steps of one initialize() call: the components, then every module
InitSteps == Len(Components) + lf_modules

\* db.initialize() raises DatabaseError, geolocation.initialize() raises
\* GeolocationError, a module's initialize is the user's code;
\* blacklist.initialize() catches what its loading raises
CanRaise(pos) == pos # 2

\* one await of initialize() (lines 144-150), and after the last one
\* self._initialized = True (line 152).  Inside scan_range the return is
\* followed at once by self.running = True (line 169); an exception goes to
\* except Exception (lines 224-228).
InitializeStep(ok) ==
  /\ lf_init_by # "none"
  /\ lf_init_pos <= InitSteps
  /\ ok \/ CanRaise(lf_init_pos)
  /\ IF lf_init_pos <= Len(Components)
       THEN /\ lf_comp_inits' =
                 [lf_comp_inits EXCEPT ![lf_init_pos] = @ + 1]
            /\ UNCHANGED lf_mod_inits
       ELSE /\ lf_mod_inits' =
                 [lf_mod_inits EXCEPT ![lf_init_pos - Len(Components)] = @ + 1]
            /\ UNCHANGED lf_comp_inits
  /\ IF ~ok
       THEN /\ lf_failed' = TRUE
            /\ lf_init_by' = "none"
            /\ lf_init_pos' = 0
            /\ lf_pc' = IF lf_init_by = "scan_range"
                          THEN "ScannerError" ELSE lf_pc
            /\ lf_running' = IF lf_init_by = "scan_range"
                               THEN FALSE ELSE lf_running
            /\ UNCHANGED <<lf_initialized, lf_at_init>>
     ELSE IF lf_init_pos = InitSteps
       THEN /\ lf_initialized' = TRUE
            /\ lf_at_init' = lf_modules
            /\ lf_init_by' = "none"
            /\ lf_init_pos' = 0
            /\ lf_pc' = IF lf_init_by = "scan_range" THEN "loop" ELSE lf_pc
            /\ lf_running' = IF lf_init_by = "scan_range"
                               THEN TRUE ELSE lf_running
            /\ UNCHANGED lf_failed
     ELSE /\ lf_init_pos' = lf_init_pos + 1
          /\ UNCHANGED <<lf_initialized, lf_init_by, lf_pc, lf_running,
                         lf_failed, lf_at_init>>
  /\ UNCHANGED <<lf_webhook, lf_modules, lf_calls, lf_early_stop, lf_taken,
                 lf_probe, lf_tasks, lf_finals, lf_fin_pos, lf_complete,
                 lf_exit, lf_fin_raised>>
  /\ UNCHANGED offLifeVars

\* asyncio.create_task(self.scanner.scan_range(ip_range)) (ui/console.py
\* lines 389-391, ui/cli.py lines 130-132): the task has not run yet
CreateScanTask ==
  /\ lf_pc = "setup"
  /\ lf_init_by = "none"
  /\ lf_pc' = "created"
  /\ UNCHANGED <<lf_webhook, lf_modules, lf_comp_inits, lf_mod_inits,
                 lf_initialized, lf_init_by, lf_init_pos, lf_calls, lf_failed,
                 lf_running, lf_early_stop, lf_taken, lf_probe, lf_tasks,
                 lf_finals, lf_fin_pos, lf_complete, lf_exit, lf_fin_raised,
                 lf_at_init>>
  /\ UNCHANGED offLifeVars

\* scan_range starts (lines 165-169): the implicit initialize(), or at once
\* self.running = True
ScanRangeStart ==
  /\ lf_pc = "created"
  /\ IF already_initialized
       THEN /\ lf_running' = TRUE
            /\ lf_pc' = "loop"
            /\ UNCHANGED <<lf_init_by, lf_init_pos, lf_calls>>
       ELSE /\ lf_init_by' = "scan_range"
            /\ lf_init_pos' = 1
            /\ lf_calls' = lf_calls + 1
            /\ lf_pc' = "init"
            /\ UNCHANGED lf_running
  /\ UNCHANGED <<lf_webhook, lf_modules, lf_comp_inits, lf_mod_inits,
                 lf_initialized, lf_failed, lf_early_stop, lf_taken, lf_probe,
                 lf_tasks, lf_finals, lf_fin_pos, lf_complete, lf_exit,
                 lf_fin_raised, lf_at_init>>
  /\ UNCHANGED offLifeVars

\* stop() (lines 371-374), from a signal handler (ui/cli.py lines 29-32) or a
\* key (ui/console.py lines 172-176), while the scan task exists
StopScan ==
  /\ lf_pc \in {"created", "init", "loop", "launch", "gather", "finalize"}
  /\ lf_running' = FALSE
  /\ lf_early_stop' = (lf_early_stop \/ lf_pc \in {"created", "init"})
  /\ UNCHANGED <<lf_webhook, lf_modules, lf_comp_inits, lf_mod_inits,
                 lf_initialized, lf_init_by, lf_init_pos, lf_calls, lf_failed,
                 lf_pc, lf_taken, lf_probe, lf_tasks, lf_finals, lf_fin_pos,
                 lf_complete, lf_exit, lf_fin_raised, lf_at_init>>
  /\ UNCHANGED offLifeVars

\* async for target in targets / if not self.running: break (lines 181-183)
TakeTarget ==
  /\ lf_pc = "loop"
  /\ IF lf_taken = LifeTargets
       THEN /\ lf_pc' = "gather"
            /\ lf_exit' = "exhausted"
            /\ UNCHANGED lf_taken
       ELSE /\ lf_taken' = lf_taken + 1
            /\ IF lf_running
                 THEN /\ lf_pc' = "launch"
                      /\ UNCHANGED lf_exit
                 ELSE /\ lf_pc' = "gather"
                      /\ lf_exit' = "stopped"
  /\ UNCHANGED <<lf_webhook, lf_modules, lf_comp_inits, lf_mod_inits,
                 lf_initialized, lf_init_by, lf_init_pos, lf_calls, lf_failed,
                 lf_running, lf_early_stop, lf_probe, lf_tasks, lf_finals,
                 lf_fin_pos, lf_complete, lf_fin_raised, lf_at_init>>
  /\ UNCHANGED offLifeVars

\* an exception inside the loop: the generator raises DiscoveryError
\* (modules/discovery.py lines 101-103, 135-139) or check_usage raises
\* (line 189).  It leaves the try at once for except Exception, raise
\* ScannerError, finally self.running = False (lines 224-228); lines 211-222
\* are not run.
LoopRaises ==
  /\ lf_pc \in {"loop", "launch"}
  /\ lf_pc' = "ScannerError"
  /\ lf_exit' = "error"
  /\ lf_running' = FALSE
  /\ UNCHANGED <<lf_webhook, lf_modules, lf_comp_inits, lf_mod_inits,
                 lf_initialized, lf_init_by, lf_init_pos, lf_calls, lf_failed,
                 lf_early_stop, lf_taken, lf_probe, lf_tasks, lf_finals,
                 lf_fin_pos, lf_complete, lf_fin_raised, lf_at_init>>
  /\ UNCHANGED offLifeVars

\* _process_completed_tasks (lines 335-343): the done tasks leave the list
LifeWithoutCompleted(ts) == {t \in ts : lf_probe[t] # "done"}

\* create_task, tasks.append, and at batch_size _process_completed_tasks
\* (lines 195-202).  Nothing here waits for a probe.
LaunchTask ==
  /\ lf_pc = "launch"
  /\ lf_probe' = [lf_probe EXCEPT ![lf_taken] = "waiting"]
  /\ lf_tasks' = IF Cardinality(lf_tasks) + 1 >= batch_size
                   THEN LifeWithoutCompleted(lf_tasks \cup {lf_taken})
                   ELSE lf_tasks \cup {lf_taken}
  /\ lf_pc' = "loop"
  /\ UNCHANGED <<lf_webhook, lf_modules, lf_comp_inits, lf_mod_inits,
                 lf_initialized, lf_init_by, lf_init_pos, lf_calls, lf_failed,
                 lf_running, lf_early_stop, lf_taken, lf_finals, lf_fin_pos,
                 lf_complete, lf_exit, lf_fin_raised, lf_at_init>>
  /\ UNCHANGED offLifeVars

LifeUnfinished ==
  {t \in 1..LifeTargets : lf_probe[t] \in {"waiting", "running"}}

LifeInFlight == {t \in 1..LifeTargets : lf_probe[t] = "running"}

\* async with semaphore (lines 230-233): a probe enters when a slot is free;
\* asyncio.Semaphore wakes its waiters in the order they came
ProbeEnters(t) ==
  /\ lf_probe[t] = "waiting"
  /\ \A u \in 1..(t - 1) : lf_probe[u] # "waiting"
  /\ Cardinality(LifeInFlight) < max_concurrent
  /\ lf_probe' = [lf_probe EXCEPT ![t] = "running"]
  /\ UNCHANGED <<lf_webhook, lf_modules, lf_comp_inits, lf_mod_inits,
                 lf_initialized, lf_init_by, lf_init_pos, lf_calls, lf_failed,
                 lf_pc, lf_running, lf_early_stop, lf_taken, lf_tasks,
                 lf_finals, lf_fin_pos, lf_complete, lf_exit, lf_fin_raised,
                 lf_at_init>>
  /\ UNCHANGED offLifeVars

\* _scan_target returns: the task is done and the slot is free
ProbeDone(t) ==
  /\ lf_probe[t] = "running"
  /\ lf_probe' = [lf_probe EXCEPT ![t] = "done"]
  /\ UNCHANGED <<lf_webhook, lf_modules, lf_comp_inits, lf_mod_inits,
                 lf_initialized, lf_init_by, lf_init_pos, lf_calls, lf_failed,
                 lf_pc, lf_running, lf_early_stop, lf_taken, lf_tasks,
                 lf_finals, lf_fin_pos, lf_complete, lf_exit, lf_fin_raised,
                 lf_at_init>>
  /\ UNCHANGED offLifeVars

\* if tasks: await asyncio.gather(*tasks, return_exceptions=True)
\* (lines 211-213) returns when every task left in the list is done
GatherReturns ==
  /\ lf_pc = "gather"
  /\ \A t \in lf_tasks : lf_probe[t] = "done"
  /\ lf_pc' = "finalize"
  /\ lf_fin_pos' = 1
  /\ UNCHANGED <<lf_webhook, lf_modules, lf_comp_inits, lf_mod_inits,
                 lf_initialized, lf_init_by, lf_init_pos, lf_calls, lf_failed,
                 lf_running, lf_early_stop, lf_taken, lf_probe, lf_tasks,
                 lf_finals, lf_complete, lf_exit, lf_fin_raised, lf_at_init>>
  /\ UNCHANGED offLifeVars

\* _finalize_scan (lines 345-352): module.finalize() in a try of its own,
\* whether it returns or raises
FinalizeModule(ok) ==
  /\ lf_pc = "finalize"
  /\ lf_fin_pos <= lf_modules
  /\ lf_finals' = [lf_finals EXCEPT ![lf_fin_pos] = @ + 1]
  /\ lf_fin_pos' = lf_fin_pos + 1
  /\ lf_fin_raised' = (lf_fin_raised \/ ~ok)
  /\ UNCHANGED <<lf_webhook, lf_modules, lf_comp_inits, lf_mod_inits,
                 lf_initialized, lf_init_by, lf_init_pos, lf_calls, lf_failed,
                 lf_pc, lf_running, lf_early_stop, lf_taken, lf_probe,
                 lf_tasks, lf_complete, lf_exit, lf_at_init>>
  /\ UNCHANGED offLifeVars

\* after _finalize_scan: send_scan_complete when the webhook is enabled
\* (lines 218-222), then finally self.running = False (lines 227-228)
ScanRangeReturns ==
  /\ lf_pc = "finalize"
  /\ lf_fin_pos > lf_modules
  /\ lf_complete' = IF lf_webhook THEN lf_complete + 1 ELSE lf_complete
  /\ lf_running' = FALSE
  /\ lf_pc' = "done"
  /\ UNCHANGED <<lf_webhook, lf_modules, lf_comp_inits, lf_mod_inits,
                 lf_initialized, lf_init_by, lf_init_pos, lf_calls, lf_failed,
                 lf_early_stop, lf_taken, lf_probe, lf_tasks, lf_finals,
                 lf_fin_pos, lf_exit, lf_fin_raised, lf_at_init>>
  /\ UNCHANGED offLifeVars

\* registration, initialize() and the start of scan_range alone
NextInitialize ==
  \/ AddModule
  \/ InitializeCall
  \/ \E ok \in BOOLEAN : InitializeStep(ok)
  \/ CreateScanTask
  \/ ScanRangeStart

SpecInitialize == InitLife /\ [][NextInitialize]_vars

NextLife ==
  \/ NextInitialize
  \/ StopScan
  \/ TakeTarget
  \/ LoopRaises
  \/ LaunchTask
  \/ \E t \in 1..LifeTargets : ProbeEnters(t)
  \/ \E t \in 1..LifeTargets : ProbeDone(t)
  \/ GatherReturns
  \/ \E ok \in BOOLEAN : FinalizeModule(ok)
  \/ ScanRangeReturns

SpecLife == InitLife /\ [][NextLife]_vars

(***************************************************************************)
(* SpecSeen: the table servers of the SQLite backend with its timestamp    *)
(* columns (core/database.py, lines 244-254 and 343-363), written by       *)
(* store_server.  INSERT OR REPLACE deletes the row that has the same      *)
(* (ip, port) and inserts a new one: a column the statement does not name  *)
(* takes its DEFAULT.                                                      *)
(***************************************************************************)
\* no row for the endpoint
NoSeenRow == [first_seen |-> -1, last_seen |-> -1] @@ NoRow

\* INSERT OR REPLACE INTO servers (ip, port, last_seen, total_scans,
\* successful_scans, availability_percentage) VALUES (?, ?,
\* CURRENT_TIMESTAMP, ...) (lines 349-363); first_seen is not named and
\* takes DEFAULT CURRENT_TIMESTAMP (line 246)
SqliteReplace(row, now) ==
  [first_seen |-> now, last_seen |-> now] @@ SqliteUpsert(row)

InitSeen ==
  /\ sn_servers = [e \in Endpoints |-> NoSeenRow]
  /\ sn_time = 0
  /\ sn_stores = [e \in Endpoints |-> 0]
  /\ sn_created = [e \in Endpoints |-> -1]
  /\ ScanConstructed
  /\ WireUnused
  /\ RestUnusedButLast
  /\ SeenOthersUnused

\* store_server for endpoint e (lines 343-393).  fault: a statement fails
\* for a reason of its own.  The snapshot written with the row has the key
\* (ip, port, scan_time): a second store of the endpoint in the same second
\* fails on it, and the connection is closed with nothing committed.
StoreSeen(e, fault) ==
  /\ sn_stores[e] < MaxProbes
  /\ sn_stores' = [sn_stores EXCEPT ![e] = @ + 1]
  /\ IF fault \/ sn_servers[e].last_seen = sn_time
       THEN UNCHANGED <<sn_servers, sn_created>>
       ELSE /\ sn_servers' =
                 [sn_servers EXCEPT ![e] = SqliteReplace(@, sn_time)]
            /\ sn_created' =
                 [sn_created EXCEPT
                    ![e] = IF sn_servers[e].present THEN @ ELSE sn_time]
  /\ UNCHANGED sn_time
  /\ UNCHANGED offSeenVars

\* a second passes
SeenTick ==
  /\ sn_time < MaxDbTime
  /\ sn_time' = sn_time + 1
  /\ UNCHANGED <<sn_servers, sn_stores, sn_created>>
  /\ UNCHANGED offSeenVars

NextSeen ==
  \/ \E e \in Endpoints, fault \in BOOLEAN : StoreSeen(e, fault)
  \/ SeenTick

SpecSeen == InitSeen /\ [][NextSeen]_vars

(***************************************************************************)
(* FairSpecHook: WebhookManager's queue (modules/webhook.py, lines 80-140  *)
(* and 345-373).  Task 0 is the background task initialize() starts with   *)
(* asyncio.create_task(self._process_queue()) (line 72); the others are    *)
(* callers of send_server_found, send_scan_stats or send_custom_message,   *)
(* which await _queue_message.  Messages are counted, not told apart.      *)
(***************************************************************************)
NumSenders == 2        \* tasks that queue messages
MaxWebhookBatch == 2   \* webhook.batch_size is 1..MaxWebhookBatch
MaxMessages == 3       \* _queue_message calls in all

Senders == 1..NumSenders
Background == 0

Outside == [pc |-> "idle", left |-> 0, sent |-> 0]

InitHook ==
  /\ wh_batch_size \in 1..MaxWebhookBatch
  /\ wh_session \in BOOLEAN
  /\ message_queue = 0
  /\ wh_call = [c \in {Background} \cup Senders |->
                  IF c = Background /\ wh_session
                    THEN [Outside EXCEPT !.pc = "while"]
                    ELSE Outside]
  /\ wh_calls = 0
  /\ ScanConstructed
  /\ WireUnused
  /\ RestUnusedButLast
  /\ HookOthersUnused

\* _queue_message (lines 345-351), awaited by a send_* method with the
\* manager enabled: append, and at batch_size `await self._process_queue()'
\* with the caller's own task
_queue_message(c) ==
  /\ wh_call[c].pc = "idle"
  /\ wh_calls < MaxMessages
  /\ wh_calls' = wh_calls + 1
  /\ message_queue' = message_queue + 1
  /\ wh_call' = [wh_call EXCEPT
                   ![c] = IF message_queue' >= wh_batch_size
                            THEN [pc |-> "while", left |-> 0, sent |-> 0]
                            ELSE Outside]
  /\ UNCHANGED <<wh_batch_size, wh_session>>
  /\ UNCHANGED offHookVars

\* _process_queue, top of `while True' (lines 355-360): take up to
\* batch_size messages off the queue, or go to the sleep of line 369
TakeBatch(c) ==
  /\ wh_call[c].pc = "while"
  /\ LET batch == Min(message_queue, wh_batch_size)
     IN  /\ message_queue' = message_queue - batch
         /\ wh_call' = [wh_call EXCEPT
                          ![c].pc = IF batch > 0 THEN "for" ELSE "sleep",
                          ![c].left = batch]
  /\ UNCHANGED <<wh_batch_size, wh_session, wh_calls>>
  /\ UNCHANGED offHookVars

\* for message in batch: _send_message_immediate and the sleep of the rate
\* limit (lines 362-366); with no session nothing is sent (lines 377-378)
SendBatchMessage(c) ==
  /\ wh_call[c].pc = "for"
  /\ wh_call' = [wh_call EXCEPT
                   ![c].left = @ - 1,
                   ![c].sent = IF wh_session THEN @ + 1 ELSE @,
                   ![c].pc = IF wh_call[c].left = 1 THEN "sleep" ELSE "for"]
  /\ UNCHANGED <<wh_batch_size, wh_session, message_queue, wh_calls>>
  /\ UNCHANGED offHookVars

\* await asyncio.sleep(5) is over (line 369), or the sleep of the except
\* branch (lines 371-373): the loop has no break and no return
LoopAgain(c) ==
  /\ wh_call[c].pc = "sleep"
  /\ wh_call' = [wh_call EXCEPT ![c].pc = "while"]
  /\ UNCHANGED <<wh_batch_size, wh_session, message_queue, wh_calls>>
  /\ UNCHANGED offHookVars

ProcessQueueStep(c) == TakeBatch(c) \/ SendBatchMessage(c) \/ LoopAgain(c)

NextHook ==
  \/ \E c \in Senders : _queue_message(c)
  \/ \E c \in {Background} \cup Senders : TakeBatch(c)
  \/ \E c \in {Background} \cup Senders : SendBatchMessage(c)
  \/ \E c \in {Background} \cup Senders : LoopAgain(c)

SpecHook == InitHook /\ [][NextHook]_vars

\* every task inside _process_queue goes on running
FairSpecHook ==
  /\ SpecHook
  /\ \A c \in {Background} \cup Senders : WF_vars(ProcessQueueStep(c))

(***************************************************************************)
(* SpecCli: CLIInterface.run (ui/cli.py, lines 107-161) on the scanner's   *)
(* IPDiscovery (modules/discovery.py, lines 141-169), with the signal      *)
(* handler of lines 29-32.                                                 *)
(***************************************************************************)
\* what an IPDiscovery object has: the attributes __init__ sets and the
\* one method the class defines
IPDiscoveryAttributes == {"config", "generators", "generate_targets"}

\* an attribute lookup that fails raises AttributeError
HasAttribute(name) == name \in IPDiscoveryAttributes

InitCli ==
  /\ cli_range \in Ranges
  /\ cli_pc = "banner"
  /\ cli_running = TRUE
  /\ cli_stop_asked = FALSE
  /\ scan_started = FALSE
  /\ stats_printed = FALSE
  /\ db_closed = FALSE
  /\ ScanConstructed
  /\ WireUnused
  /\ RestUnusedButLast
  /\ CliOthersUnused

\* _print_banner, _print_config and the three prints (lines 110-115)
CliPrintsBanner ==
  /\ cli_pc = "banner"
  /\ cli_pc' = "estimate"
  /\ UNCHANGED <<cli_range, cli_running, cli_stop_asked, scan_started,
                 stats_printed, db_closed>>
  /\ UNCHANGED offCliVars

\* self.total_targets = await
\* self.scanner.discovery.estimate_total_targets(ip_range) (line 118), inside
\* the try of run: the lookup comes before any call.  With the attribute
\* there, run would go on to asyncio.create_task(scan_range) (lines
\* 130-132); IPDiscovery has none, so nothing after line 118 is reached.
CliEstimates ==
  /\ cli_pc = "estimate"
  /\ cli_pc' = IF HasAttribute("estimate_total_targets")
                 THEN "create_task" ELSE "except"
  /\ UNCHANGED <<cli_range, cli_running, cli_stop_asked, scan_started,
                 stats_printed, db_closed>>
  /\ UNCHANGED offCliVars

\* except Exception as e: print(f"\nCLI Error: {e}") (lines 156-158)
CliExcept ==
  /\ cli_pc = "except"
  /\ cli_pc' = "finally"
  /\ UNCHANGED <<cli_range, cli_running, cli_stop_asked, scan_started,
                 stats_printed, db_closed>>
  /\ UNCHANGED offCliVars

\* finally: self.running = False; await self.scanner.db.close()
\* (lines 159-161)
CliFinally ==
  /\ cli_pc = "finally"
  /\ cli_running' = FALSE
  /\ db_closed' = TRUE
  /\ cli_pc' = "closed"
  /\ UNCHANGED <<cli_range, cli_stop_asked, scan_started, stats_printed>>
  /\ UNCHANGED offCliVars

\* SIGINT or SIGTERM while run is under way: scanner.stop() and
\* self.running = False (lines 29-32)
CliSignal ==
  /\ cli_pc # "closed"
  /\ cli_stop_asked' = TRUE
  /\ cli_running' = FALSE
  /\ UNCHANGED <<cli_range, cli_pc, scan_started, stats_printed, db_closed>>
  /\ UNCHANGED offCliVars

NextCli ==
  \/ CliPrintsBanner
  \/ CliEstimates
  \/ CliExcept
  \/ CliFinally
  \/ CliSignal

SpecCli == InitCli /\ [][NextCli]_vars

(***************************************************************************)
(* Properties.                                                             *)
(***************************************************************************)
Launched == {t \in Targets : pc[t] # "idle"}
Finished == {t \in Targets : pc[t] = "done"}
InGate == {t \in Targets : pc[t] \in InProbe}
InGateOn(h) == {t \in InGate : HostOf(t) = h}
AnyHung == \E t \in Targets : pc[t] = "hung"

\* a step that creates a probe task
LaunchStep == \E t \in Targets : pc[t] = "idle" /\ pc'[t] # "idle"

\* C1: a well-formed status response that has arrived completely (here: in
\* one segment, before the reader looked) makes the attempt return the JSON
\* document it carries, whatever the document's length.
C1_ModernPingReturnsDocument ==
  (mpc = "done" /\ peerKind = "reply" /\ segs = 1 /\ delivered = Len(wire)
     /\ consumed > 0)
    => mresult = [ok |-> TRUE, v |-> doc.v,
                  ping_protocol_used |-> protocol_version]

\* C2: against a peer that accepts the connection and never writes, the
\* attempt eventually ends, as a failure.
C2_SilentPeerAttemptEnds ==
  (peerKind = "silent") => <>(mpc = "done" /\ mresult = None)

\* C3: never more than max_concurrent targets are inside a probe, a slot is
\* taken exactly while a target is inside its probe, and with no probe under
\* way every slot is free.
C3_GlobalGate ==
  /\ Cardinality(InGate) <= max_concurrent
  /\ semaphore = max_concurrent - Cardinality(InGate)
  /\ (InGate = {} => semaphore = max_concurrent)

C3_Witness ==
  /\ Cardinality(InGate) = max_concurrent
  /\ \E t \in Targets : pc[t] = "created"
  /\ \E t \in Targets : pc[t] = "backoff"

\* C4: the probes in flight against one host never exceed
\* max_connections_per_host.
C4_PerHostGate ==
  \A h \in Hosts : Cardinality(InGateOn(h)) <= max_connections_per_host

\* C5: every finished target was counted once, in blacklisted_skipped if it
\* was skipped and in total_scanned otherwise; with no probe under way the
\* two counters add up to the number of probes launched.
C5_CountersPartitionTargets ==
  /\ stats.blacklisted_skipped =
       Cardinality({t \in Finished : outcome[t] = "blacklisted"})
  /\ stats.total_scanned =
       Cardinality({t \in Finished : outcome[t] # "blacklisted"})
  /\ (Finished = Launched =>
        stats.blacklisted_skipped + stats.total_scanned = Cardinality(Launched))

C5_Witness ==
  /\ cpc = "returned"
  /\ Launched = Targets
  /\ Finished = Launched
  /\ stats.blacklisted_skipped >= 1
  /\ stats.total_scanned >= 2

\* C6: after a stop() during the scan, scan_range returns, unless a probe
\* never terminates.
C6_StopCompletesScan == stopped_mid ~> (cpc = "returned" \/ AnyHung)

\* C7 as stated: after a stop() during the scan no probe task is created.
C7_NoLaunchAfterStop == [][stopped_mid => ~LaunchStep]_vars

\* C7 as amended: after a stop() during the scan at most one probe task is
\* created, and none once the loop has come round to its running test.
C7_OneLaunchAfterStop ==
  /\ launched_after_stop <= 1
  /\ (stopped_mid /\ cpc \in {"gen", "gather", "returned"}
        => nextIdx - Cardinality(Launched) \in {0, 1})

C7_Witness == stopped_mid /\ launched_after_stop = 1 /\ cpc = "returned"

\* C8 as stated: while PAUSED no probe task is created.
C8_NoLaunchWhilePaused == [][(running /\ paused) => ~LaunchStep]_vars

\* C8 as amended: during one pause at most one probe task is created, a
\* pause blocks no probe under way, and the targets launched are the targets
\* taken from the generator, in order, each once.
C8_PauseHoldsTargets ==
  /\ paused => launched_in_pause <= 1
  /\ Launched = 1..Cardinality(Launched)
  /\ cpc \in {"pause_sleep", "mem", "rate"}
       => /\ cur = nextIdx
          /\ pc[cur] = "idle"
          /\ Launched = 1..(cur - 1)
  /\ paused => \A t \in Targets :
                 pc[t] \in {"ping", "process", "backoff"} => ENABLED ProbeStep(t)

C8_Witness ==
  /\ running /\ paused
  /\ launched_in_pause = 1
  /\ cpc = "pause_sleep"
  /\ \E t \in Targets : pc[t] = "done"

\* C9: the lifecycle moves along IDLE -> RUNNING <-> PAUSED -> STOPPED only.
LifeState ==
  IF running THEN (IF paused THEN "PAUSED" ELSE "RUNNING")
  ELSE IF start_time = 0 THEN "IDLE" ELSE "STOPPED"

LifeEdges ==
  {<<"IDLE", "RUNNING">>, <<"RUNNING", "PAUSED">>, <<"PAUSED", "RUNNING">>,
   <<"RUNNING", "STOPPED">>, <<"PAUSED", "STOPPED">>}

C9_LifecycleEdges ==
  [][LifeState' # LifeState => <<LifeState, LifeState'>> \in LifeEdges]_vars

\* C10: once the scan has returned, errors counts exactly the targets whose
\* last attempt was a transport or protocol error on an accepted connection.
C10_ErrorsCountTransportErrors ==
  cpc = "returned" =>
    stats.errors = Cardinality({t \in Finished : outcome[t] = "neterr"})

\* C11: no exception raised inside a probe leaves _scan_target, and the
\* target adds at most one to errors, and only after its last attempt,
\* however many of its attempts raised.
C11_ProbeConfinesExceptions ==
  /\ p_pc # "raised"
  /\ p_stats.errors <= 1
  /\ (p_stats.errors = 1 => p_raises >= 1 /\ p_attempt > retries)

C11_Witness ==
  /\ p_pc = "done"
  /\ p_raises > retries
  /\ p_stats.errors = 1
  /\ p_stats.total_scanned = 1

\* C12: once a server is found and stored, whatever the observers raise,
\* errors stays 0, servers_found is 1, store_server was called once and the
\* probe is not retried, and at the end every observer has been invoked.
C12_ObserverErrorsIsolated ==
  p_stats.servers_found >= 1 =>
    /\ p_stats.servers_found = 1
    /\ p_stats.errors = 0
    /\ p_stores = 1
    /\ p_inflight = 0
    /\ p_pc \in {"notify", "done"}
    /\ (p_pc = "done" => p_notified = 1..Len(Observers))

\* geolocation and every observer raised, on the first attempt
C12_Witness ==
  /\ p_pc = "done"
  /\ p_attempt = 0
  /\ p_stats.servers_found = 1
  /\ p_raises = Len(Observers) + 1
  /\ p_rows = 1

\* the address of target t is in the cache or inside a blacklisted network
Blocked(t) ==
  \/ HostOf(t) \in blacklist.blacklist_cache
  \/ \E n \in blacklist.network_blacklist : HostOf(t) \in (n.lo)..(n.hi)

\* C13: a target whose address is blacklisted (since before its probe
\* began) gets no connection and no store_server call, is never counted in
\* total_scanned and ends counted once in blacklisted_skipped; a target
\* counted in blacklisted_skipped is counted once and nothing was stored.
C13_BlacklistedNeverProbed ==
  /\ (p_valid /\ Blocked(p_target) /\ ~p_late) =>
        /\ p_conns = 0
        /\ p_stores = 0
        /\ p_rows = 0
        /\ p_stats.total_scanned = 0
        /\ (p_pc = "done" <=> p_stats.blacklisted_skipped = 1)
        /\ p_pc \in {"created", "done"}
  /\ p_stats.blacklisted_skipped <= 1
  /\ (p_stats.blacklisted_skipped = 1 => p_pc = "done" /\ p_stores = 0)

\* blocked through a network only
C13_Witness ==
  /\ p_pc = "done"
  /\ p_stats.blacklisted_skipped = 1
  /\ ~p_late
  /\ blacklist.blacklist_cache = {}
  /\ blacklist.network_blacklist # {}
  /\ p_conns = 0

\* C14: a target gets at most retries + 1 connections, one at a time, each
\* but the first after a back-off wait.
C14_AttemptsBoundedAndSpaced ==
  /\ p_conns <= retries + 1
  /\ p_inflight <= 1
  /\ ~p_nobackoff

\* C18: a launched target causes at most one store_server call, hence at
\* most one committed update, however many attempts it needed.
C18_OneStorePerTarget ==
  /\ p_stores <= 1
  /\ p_rows <= p_stores

\* stored after an attempt whose parse raised
C18_Witness ==
  /\ p_pc = "done"
  /\ p_stores = 1
  /\ p_attempt >= 1
  /\ p_raises >= 1
  /\ p_conns >= 2

\* C15: every endpoint row has successful_scans <= total_scans and
\* availability_percentage = successful_scans / total_scans * 100, on both
\* backends.
C15_AvailabilityMatchesCounts ==
  \A e \in Endpoints :
    servers[e].present =>
      /\ servers[e].successful_scans <= servers[e].total_scans
      /\ servers[e].availability_percentage =
           Percentage(servers[e].successful_scans, servers[e].total_scans)

\* C16: once the row of an endpoint exists, each completed probe of the
\* endpoint adds one to its total_scans, and one to its successful_scans
\* exactly when the probe found a server.
C16_EveryProbeUpdatesRow ==
  [][\A e \in Endpoints :
       (servers[e].present /\ probes'[e].done = probes[e].done + 1) =>
         /\ servers'[e].total_scans = servers[e].total_scans + 1
         /\ servers'[e].successful_scans - servers[e].successful_scans
              = probes'[e].found - probes[e].found]_vars

\* C17: a store_server call either updates the row of its endpoint and
\* appends exactly one snapshot, or changes nothing; every snapshot's
\* endpoint has a row, and no two snapshots of an endpoint share a
\* scan_time.
C17_StoreIsAtomic ==
  [][\A e \in Endpoints :
       probes'[e].found = probes[e].found + 1 =>
         \/ /\ servers'[e].total_scans = servers[e].total_scans + 1
            /\ Len(server_status') = Len(server_status) + 1
            /\ server_status'[Len(server_status')].endpoint = e
            /\ \A i \in 1..Len(server_status') :
                 /\ servers'[server_status'[i].endpoint].present
                 /\ \A j \in 1..Len(server_status') :
                      server_status'[i] = server_status'[j] => i = j
         \/ UNCHANGED <<servers, server_status>>]_vars

\* C19: after warm-up, the probes launched in a window of ten seconds are
\* at most rate_limit * 10 * 1.05.
C19_WindowRateBounded ==
  win_count * 100 <= rate_limit * 10 * 105

C21_PreferredVersionFirst ==
  (config.scan_all_protocols /\ pp_conns # <<>>) =>
    /\ pp_conns[1].version = config.protocol_version
    /\ (pp_conns[1].reply = "reply" =>
          /\ pp_pc = "returned"
          /\ pp_result.ok
          /\ pp_result.detected_protocol = {config.protocol_version})

\* C22: with multi-protocol probing enabled, once the first version has
\* failed the versions of config.protocol_versions are tried in list order,
\* none skipped; a document ends the call, annotated with the version that
\* obtained it; the legacy ping comes after every modern version, only with
\* legacy_support and at most once; and None is returned only when every
\* path was tried and failed.
C22_FallbackOrder ==
  config.scan_all_protocols =>
    LET L == Len(config.protocol_versions)
        N == Len(pp_conns)
    IN  /\ \A k \in 1..N :
             LET c == pp_conns[k] IN
             /\ (k = 1 => c.slot = 0)
             /\ (k > 1 => /\ pp_conns[k - 1].reply # "reply"
                          /\ pp_conns[k - 1].slot <= c.slot
                          /\ c.slot <= pp_conns[k - 1].slot + 1)
             /\ (c.slot \in 1..L => c.version = config.protocol_versions[c.slot])
             /\ (c.slot > L <=> c.version = legacy)
             /\ (c.version = legacy =>
                   /\ config.legacy_support
                   /\ c.slot = L + 1
                   /\ \A j \in 1..N : pp_conns[j].version = legacy => j = k)
             /\ (c.reply = "reply" =>
                   /\ pp_pc = "returned"
                   /\ pp_result.ok
                   /\ pp_result.detected_protocol = {c.version})
        /\ ((pp_pc = "returned" /\ ~pp_result.ok) =>
              /\ \A k \in 1..N : pp_conns[k].reply # "reply"
              /\ \A s \in 0..L : \E k \in 1..N : pp_conns[k].slot = s
              /\ (config.legacy_support =>
                    \E k \in 1..N : pp_conns[k].version = legacy))

\* the second version of the list answered after the paths before it failed
C22_Witness ==
  /\ config.scan_all_protocols
  /\ pp_pc = "returned"
  /\ pp_result.ok
  /\ pp_result.protocol_detection_used
  /\ \E k \in 1..Len(pp_conns) :
       pp_conns[k].slot = 2 /\ pp_conns[k].reply = "reply"

\* C23: after a malformed reply received with some protocol version, no
\* further connection is opened with that version.
C23_MalformedNotRetried ==
  \A i, j \in 1..Len(pp_conns) :
    (i < j /\ pp_conns[i].reply = "malformed" /\ pp_conns[i].version # legacy)
      => pp_conns[j].version # pp_conns[i].version

\* C24: the bytes _encode_varint(n) produces for 0 <= n < 2^31 are between
\* one and five, and the length loop of _read_packet reads all of them and
\* stops with length = n.
C24_VarIntRoundTrip ==
  vi_n >= 0 =>
    /\ Len(vi_stream) \in 1..5
    /\ vi_pc \in {"reading", "length"}
    /\ (vi_pc = "reading" => vi_pos < Len(vi_stream))
    /\ (vi_pc = "length" => vi_pos = Len(vi_stream) /\ vi_length = vi_n)

\* the largest integer went through its five bytes
C24_Witness ==
  vi_n = MaxVarInt /\ vi_pc = "length" /\ vi_pos = 5 /\ vi_length = MaxVarInt

\* C25: the length loop never takes a length from more than five bytes: when
\* it stops with a length it has read at most five bytes, and not five
\* bytes with the continuation bit.
C25_FiveBytesAtMost ==
  vi_pc = "length" =>
    /\ vi_pos <= 5
    /\ ~(Len(vi_stream) >= 5 /\ \A i \in 1..5 : vi_stream[i] >= 128)

\* C26: parse_response returns a ParsedServer for every status document that
\* is a JSON object; it never raises.
C26_ParseNeverFails == ps_pc # "ParsingError"

\* a section sign followed by one of 0-9, a-f, k-o, r
HasSectionCode(s) ==
  \E i \in 1..(Len(s) - 1) :
    Char(s, i) = "§" /\ Contains(CodeChars, Char(s, i + 1))

\* C27: the motd_formatted of a parsed document holds no section-sign
\* formatting code, and the description with extra [{text: 'Paper server',
\* color: 'gold'}] and empty text gives exactly 'Paper server'.
C27_MotdIsPlainText ==
  (ps_pc = "returned" /\ parsed.motd_formatted.t = "str") =>
    /\ ~HasSectionCode(parsed.motd_formatted.s)
    /\ (Get(ps_document, "description", JNull) = PaperServer =>
          parsed.motd_formatted.s = "Paper server")

\* the keywords of rules (3) and (4), in order, each with its software
SoftwareKeywords ==
  <<[kw |-> "purpur", is |-> "purpur"], [kw |-> "folia", is |-> "folia"],
    [kw |-> "pufferfish", is |-> "pufferfish"],
    [kw |-> "paper", is |-> "paper"], [kw |-> "spigot", is |-> "spigot"],
    [kw |-> "bukkit", is |-> "bukkit"],
    [kw |-> "craftbukkit", is |-> "bukkit"],
    [kw |-> "fabric", is |-> "fabric"], [kw |-> "quilt", is |-> "quilt"],
    [kw |-> "velocity", is |-> "velocity"],
    [kw |-> "bungeecord", is |-> "bungeecord"],
    [kw |-> "waterfall", is |-> "waterfall"],
    [kw |-> "forge", is |-> "forge"], [kw |-> "fml", is |-> "forge"]>>

\* the software of the first keyword found in text, "" if there is none
FirstKeyword(text) ==
  LET found == {i \in 1..Len(SoftwareKeywords) :
                  Contains(Lower(text), SoftwareKeywords[i].kw)}
  IN  IF found = {} THEN ""
      ELSE SoftwareKeywords[CHOOSE i \in found : \A j \in found : i <= j].is

\* the priority rules (1)-(6) on a document, its version name and its
\* cleaned MOTD
PriorityRules(document, version_name, motd) ==
  IF "forgeData" \in DOMAIN document.d \/ "modinfo" \in DOMAIN document.d
    THEN IF Contains(Lower(version_name), "neoforge") THEN "neoforge"
         ELSE "forge"
  ELSE IF \/ Truthy(Get(document, "isModded", JNull))
          \/ Truthy(Get(document, "modded", JNull))
    THEN "neoforge"
  ELSE IF FirstKeyword(version_name) # "" THEN FirstKeyword(version_name)
  ELSE IF FirstKeyword(motd) # "" THEN FirstKeyword(motd)
  ELSE IF VersionNumberExact(version_name) THEN "vanilla"
  ELSE "unknown"

\* C28: the server_type of a parsed document is what the priority rules
\* (1)-(6) give for it.
C28_SoftwareByPriority ==
  ps_pc = "returned" =>
    parsed.server_type =
      PriorityRules(ps_document,
                    IF parsed.version_name.t = "str"
                      THEN parsed.version_name.s ELSE "",
                    IF parsed.motd_formatted.t = "str"
                      THEN parsed.motd_formatted.s ELSE "")

\* the pairs of (host address, port) of a network, host by host
HostMajor(ip_range, ports) ==
  [k \in 1..(Len(hosts(ip_range)) * Len(ports)) |->
     <<IpStr(hosts(ip_range)[((k - 1) \div Len(ports)) + 1]),
       ports[((k - 1) % Len(ports)) + 1]>>]

\* C29: for a CIDR, RangeGenerator yields the pairs of (host address,
\* configured port) in host-major order, each once, whatever batch_size is:
\* what it has yielded is always a prefix of that sequence, and all of it
\* when the generator ends; a /32 gives one target per port.
C29_RangeHostMajorOnce ==
  (d_input.kind = "range" /\ d_input.prefixlen <= 32) =>
    LET expected == HostMajor(d_input, d_config.ports)
    IN  /\ d_pc # "DiscoveryError"
        /\ Len(d_out) <= Len(expected)
        /\ d_out = SubSeq(expected, 1, Len(d_out))
        /\ (d_pc = "done" => d_out = expected)
        /\ ((d_pc = "done" /\ d_input.prefixlen = 32) =>
              Len(d_out) = Len(d_config.ports))

\* a range ended after full batches and a last, shorter one
C29_Witness ==
  /\ d_input.kind = "range"
  /\ d_pc = "done"
  /\ d_config.batch_size > 0
  /\ Len(d_out) > d_config.batch_size
  /\ Len(d_out) % d_config.batch_size # 0

\* C30: every target FileGenerator yields has a valid address and a valid
\* port, and the generator does not end in an error.
C30_FileTargetsValid ==
  d_input.kind = "file" =>
    /\ d_pc # "DiscoveryError"
    /\ \A k \in 1..Len(d_out) :
         /\ ip_address_ok(d_out[k][1])
         /\ d_out[k][2] \in 1..65535

\* C31: a check that samples usage runs the force cleanup and returns False
\* at 95 percent or more, the gentle cleanup from 80 percent, and nothing
\* below; no probe is launched straight after a False; and check_usage
\* never raises into the scan loop.
C31_MemoryGuard ==
  /\ mm_pc # "ScannerError"
  /\ ~mm_unheeded
  /\ (mm_usage >= critical_threshold =>
        mm_cleanup = "force" /\ ~mm_returned)
  /\ ((mm_usage >= warning_threshold /\ mm_usage < critical_threshold) =>
        mm_cleanup = "gentle" /\ mm_returned)
  /\ (mm_usage < warning_threshold => mm_cleanup = "none" /\ mm_returned)

\* C32: whenever scan_range has ended after reaching the scan loop (targets
\* exhausted, stop(), or an error raised in the loop), every probe it
\* launched is finished, every registered module has had finalize() exactly
\* once, and with the webhook enabled the completion notice has been sent.
C32_ScanEndIsClean ==
  (lf_pc \in {"done", "ScannerError"} /\ lf_exit # "none") =>
    /\ \A t \in 1..LifeTargets : lf_probe[t] \in {"none", "done"}
    /\ \A m \in 1..lf_modules : lf_finals[m] = 1
    /\ lf_webhook => lf_complete = 1

\* C33, as stated: no component and no module is ever initialized a second
\* time, and once initialize() has returned every module registered before
\* it has been initialized exactly once.
C33_InitializeOnce ==
  /\ \A c \in 1..Len(Components) : lf_comp_inits[c] <= 1
  /\ \A m \in LifeModules : lf_mod_inits[m] <= 1
  /\ lf_initialized => \A m \in 1..lf_at_init : lf_mod_inits[m] = 1

\* C33, amended: an initialize() call that returns has initialized every
\* component and every module registered before it, exactly once if no
\* earlier call raised; and once a call has returned, no later call
\* (explicit, or the implicit one of scan_range) initializes anything.
C33_InitializeOnceAfterSuccess ==
  /\ [](lf_initialized =>
          /\ \A c \in 1..Len(Components) : lf_comp_inits[c] >= 1
          /\ \A m \in 1..lf_at_init : lf_mod_inits[m] >= 1
          /\ ~lf_failed =>
               /\ \A c \in 1..Len(Components) : lf_comp_inits[c] = 1
               /\ \A m \in 1..lf_at_init : lf_mod_inits[m] = 1)
  /\ [][lf_initialized => UNCHANGED <<lf_comp_inits, lf_mod_inits>>]_vars

\* a second initialize() call has been made and has returned, after a first
\* one that initialized a registered module and returned
C33_Witness ==
  /\ lf_initialized
  /\ ~lf_failed
  /\ lf_at_init >= 1
  /\ lf_calls >= 2
  /\ lf_init_by = "none"

\* C34: a stop() that came after the scan task was created and before
\* scan_range set running is not lost: no target is ever probed.
C34_EarlyStopNotLost ==
  lf_early_stop => \A t \in 1..LifeTargets : lf_probe[t] = "none"

\* C35: the probe tasks created and not finished are never more than
\* max_concurrent + concurrency.batch_size.
C35_UnfinishedBounded ==
  Cardinality(LifeUnfinished) <= max_concurrent + batch_size

\* C36: with time advancing and weak fairness, every acquire(n) call
\* returns in the end, whatever n is and whoever else is calling.
C36_AcquireReturns ==
  \A p \in Acquirers : (acq[p].pc = "sleeping") ~> (acq[p].pc = "idle")

\* C37: first_seen is the time the row was created and no later store of the
\* same endpoint changes it, while last_seen never goes back; a store
\* touches the row of one endpoint only.
C37_FirstSeenKept ==
  /\ [](\A e \in Endpoints :
          sn_servers[e].present => sn_servers[e].first_seen = sn_created[e])
  /\ [][/\ Cardinality({e \in Endpoints : sn_servers'[e] # sn_servers[e]}) <= 1
        /\ \A e \in Endpoints :
             sn_servers'[e].last_seen >= sn_servers[e].last_seen]_vars

\* C38: every _queue_message call returns; a call that finds the queue at
\* batch_size sends no more than the batch first.
C38_QueueMessageReturns ==
  /\ \A c \in Senders : (wh_call[c].pc # "idle") ~> (wh_call[c].pc = "idle")
  /\ [](\A c \in Senders : wh_call[c].sent <= wh_batch_size)

\* C39: with the blacklist enabled, a target whose ip string is no address
\* (a host name from an `ip:port' line) is probed: once its task has run, a
\* connection has been asked for, and is_blacklisted has raised nothing.
C39_HostNameIsProbed ==
  (~p_valid /\ p_pc # "created") => (p_conns >= 1 /\ p_raises = 0)

\* C40: a headless run that has ended has started scan_range, has printed
\* the final statistics and has closed the database, whatever became of
\* the estimate of the number of targets.
C40_RunStartsScan ==
  cli_pc = "closed" => (scan_started /\ stats_printed /\ db_closed)

====
